---------------------------- MODULE Spec2Model ----------------------------
(***************************************************************************)
(* Quantum++ circuits (include/classes/circuits.h): the QCircuit builder.  *)
(*                                                                         *)
(* The state is one QCircuit object: its configuration (nq_, nc_, d_), the *)
(* measured_ flags, the matrix hash table, the gate and measurement        *)
(* counters and the three step containers.  Every builder member function  *)
(* is an operator that computes, from the current object and the call's    *)
(* arguments, the outcome of the call: the exception it throws ("ok" when  *)
(* it returns) and the object it leaves behind.  The action of the member  *)
(* function installs that outcome.                                         *)
(*                                                                         *)
(* A behaviour is one chained builder expression                           *)
(*     qc.gate(...).CTRL(...).measureZ(...)...                             *)
(* every call returns *this, and an exception unwinds the chain: no call   *)
(* follows a call that threw.                                              *)
(***************************************************************************)
EXTENDS Integers, Sequences, FiniteSets, TLC

(***************************************************************************)
(* Bounds of the model.                                                    *)
(***************************************************************************)
MaxNq == 2        \* circuits of 1..MaxNq qudits
MaxNc == 1        \* circuits of 0..MaxNc classical dits
MaxD == 2         \* qudit dimension 2..MaxD
MaxLen == 2       \* index lists passed to the builder have 0..MaxLen entries
MaxSteps == 2     \* builder calls per chain
MaxExec == 2      \* steps an engine executes
MaxMany == 3      \* qudits of the subsys vectors a whole target list is marked on
MaxKraus == 2     \* Kraus operators of the noise model of a noisy engine
MaxNcEng == 2     \* classical dits 0..MaxNcEng of the circuits an engine is run on
MaxBell == 4      \* steps of the circuits of qubits whose amplitudes are followed
MaxRuns == 2      \* runs of a circuit that a noisy engine records

VARIABLES
    nq_,                \* const idx nq_
    nc_,                \* const idx nc_
    d_,                 \* const idx d_
    measured_,          \* std::vector<bool> measured_
    cmat_hash_tbl_,     \* std::unordered_map<std::size_t, cmat>
    count_,             \* std::unordered_map<std::string, idx>
    measurement_count_, \* std::unordered_map<std::string, idx>
    gates_,             \* std::vector<GateStep>
    measurements_,      \* std::vector<MeasureStep>
    step_types_,        \* std::vector<StepType>
    call,               \* the last call: member function and arguments
    err,                \* what that call threw; "ok" when it returned
    emitted,            \* history: the steps in the order the builder emitted them
    pc,                 \* "build" while the circuit is built, "run" once an
                        \* engine is bound to it
    it,                 \* a QCircuit::iterator
    psi_,               \* ket psi_
    dits_,              \* std::vector<idx> dits_
    probs_,             \* std::vector<double> probs_
    subsys_,            \* std::vector<idx> subsys_
    op,                 \* the last iterator or engine operation and what it threw
    executed,           \* history: the timeline positions executed, in order
    arg,                \* the arguments of the last get_dit, set_dit or execute(elem)
    noise_results_      \* std::vector<std::vector<idx>> noise_results_

circuit == <<nq_, nc_, d_, measured_, cmat_hash_tbl_, count_, measurement_count_,
             gates_, measurements_, step_types_, call, err, emitted>>

engine == <<psi_, dits_, probs_, subsys_>>

vars == <<nq_, nc_, d_, measured_, cmat_hash_tbl_, count_, measurement_count_,
          gates_, measurements_, step_types_, call, err, emitted,
          pc, it, psi_, dits_, probs_, subsys_, op, executed,
          arg, noise_results_>>

(***************************************************************************)
(* Matrices.  A cmat is its shape and its content; `v` tells apart         *)
(* matrices of the same shape with different entries.                      *)
(***************************************************************************)
Mats ==
    {[rows |-> d_ ^ k, cols |-> d_ ^ k, v |-> 0] : k \in 1..MaxLen}
        \cup {[rows |-> d_ * d_, cols |-> d_ * d_, v |-> 1]}
        \cup {[rows |-> d_, cols |-> d_ * d_, v |-> 0]}

\* the Hadamard and the Pauli X matrices of the catalog, for qubits
Hadamard == [rows |-> 2, cols |-> 2, v |-> 3]

PauliX == [rows |-> 2, cols |-> 2, v |-> 0]

\* hash_eigen: a digest of the matrix; it is lossy, two of the matrices of
\* Mats that differ in content alone have the same digest; the digest of
\* Hadamard is not that of PauliX
hash_eigen(U) == U.rows * (d_ ^ (MaxLen + 1) + 1) + U.cols + (U.v \div 2)

\* internal::EqualEigen: shape and entries are equal
equal_eigen(A, B) == A = B

\* internal::check_square_mat
check_square_mat(U) == U.rows = U.cols

\* internal::check_no_duplicates
check_no_duplicates(v) == Cardinality({v[k] : k \in 1..Len(v)}) = Len(v)

\* Gates::get_name: the catalog's name of a matrix, "" when it has none
get_name(U) ==
    IF check_square_mat(U) /\ U.v = 0
    THEN (IF U.rows = d_ THEN "X" ELSE "XX")
    ELSE ""

(***************************************************************************)
(* The object and the outcome of a call.                                   *)
(***************************************************************************)
QC ==
    [measured |-> measured_, tbl |-> cmat_hash_tbl_, count |-> count_,
     mcount |-> measurement_count_, gates |-> gates_,
     measurements |-> measurements_, step_types |-> step_types_]

NoStep == [kind |-> "NONE"]

\* a throw: the object is as it is at the throw
Throw(e, qc) == [err |-> e, qc |-> qc, emit |-> NoStep]

get_step_count == Len(step_types_)

\* QCircuit::get_measured(i); the callers check i < nq_ first
get_measured(i) == measured_[i]

get_measured_all == {i \in 0..(nq_ - 1) : get_measured(i)}

\* QCircuit::get_non_measured(): ascending
RECURSIVE non_measured_from(_)
non_measured_from(i) ==
    IF i >= nq_ THEN <<>>
    ELSE (IF get_measured(i) THEN <<>> ELSE <<i>>) \o non_measured_from(i + 1)

get_non_measured == non_measured_from(0)

\* count_[name] += n on an unordered_map: a missing key starts at 0
Bump(m, name, n) ==
    IF name \in DOMAIN m THEN [m EXCEPT ![name] = @ + n] ELSE m @@ (name :> n)

Sum(m) ==
    LET RECURSIVE S(_)
        S(D) == IF D = {} THEN 0
                ELSE LET k == CHOOSE k \in D : TRUE IN m[k] + S(D \ {k})
    IN S(DOMAIN m)

get_gate_count == Sum(count_)

\* QCircuit::get_gate_count(name): count_.at(name), which throws when the name
\* has no entry
get_gate_count_name(name) ==
    IF name \in DOMAIN count_ THEN [err |-> "ok", result |-> count_[name]]
    ELSE [err |-> "out_of_range", result |-> 0]

\* QCircuit::get_gate_depth()
get_gate_depth == [err |-> "NotImplemented", result |-> 0]

\* QCircuit::get_gate_depth(name)
get_gate_depth_name(name) == [err |-> "NotImplemented", result |-> 0]

get_measurement_count == Sum(measurement_count_)

\* QCircuit::add_hash_
add_hash_(tbl, U, hashU) ==
    IF hashU \in DOMAIN tbl /\ ~equal_eigen(tbl[hashU], U)
    THEN [err |-> "MatrixHashCollision", tbl |-> tbl]
    ELSE [err |-> "ok",
          tbl |-> IF hashU \in DOMAIN tbl THEN tbl ELSE tbl @@ (hashU :> U)]

\* GateType: the quantum-controlled and the classically-controlled types
QuantumCtrlTypes ==
    {"SINGLE_CTRL_SINGLE_TARGET", "SINGLE_CTRL_MULTIPLE_TARGET",
     "MULTIPLE_CTRL_SINGLE_TARGET", "MULTIPLE_CTRL_MULTIPLE_TARGET", "CUSTOM_CTRL"}

ClassicalCtrlTypes ==
    {"SINGLE_cCTRL_SINGLE_TARGET", "SINGLE_cCTRL_MULTIPLE_TARGET",
     "MULTIPLE_cCTRL_SINGLE_TARGET", "MULTIPLE_cCTRL_MULTIPLE_TARGET",
     "CUSTOM_cCTRL"}

GateStep(gate_type, gate_hash, ctrl, target, name) ==
    [kind |-> "GATE", gate_type_ |-> gate_type, gate_hash_ |-> gate_hash,
     ctrl_ |-> ctrl, target_ |-> target, name_ |-> name]

MeasureStep(measurement_type, mats_hash, target, c_reg, name) ==
    [kind |-> "MEASUREMENT", measurement_type_ |-> measurement_type,
     mats_hash_ |-> mats_hash, target_ |-> target, c_reg_ |-> c_reg,
     name_ |-> name]

\* a variant of the tail that puts the new step in front of gates_
EmitGate_mut_prepend(gate_type, U, ctrl, target, name, inc) ==
    LET hashU == hash_eigen(U)
        added == add_hash_(cmat_hash_tbl_, U, hashU)
        step == GateStep(gate_type, hashU, ctrl, target, name)
    IN  IF added.err # "ok" THEN Throw(added.err, QC)
        ELSE [err |-> "ok",
              qc |-> [QC EXCEPT !.tbl = added.tbl,
                                !.gates = <<step>> \o @,
                                !.step_types = Append(@, "GATE"),
                                !.count = Bump(@, name, inc)],
              emit |-> step]

\* a variant of the tail that appends the step before it calls add_hash_
EmitGate_mut_push_first(gate_type, U, ctrl, target, name, inc) ==
    LET hashU == hash_eigen(U)
        added == add_hash_(cmat_hash_tbl_, U, hashU)
        step == GateStep(gate_type, hashU, ctrl, target, name)
        pushed == [QC EXCEPT !.gates = Append(@, step),
                             !.step_types = Append(@, "GATE")]
    IN  IF added.err # "ok" THEN Throw(added.err, pushed)
        ELSE [err |-> "ok",
              qc |-> [pushed EXCEPT !.tbl = added.tbl,
                                    !.count = Bump(@, name, inc)],
              emit |-> step]

\* the tail of every gate member function:
\*   hashU = hash_eigen(U); add_hash_(U, hashU); gates_.emplace_back(...);
\*   step_types_.push_back(StepType::GATE); count_[name] += inc
EmitGate(gate_type, U, ctrl, target, name, inc) ==
    LET hashU == hash_eigen(U)
        added == add_hash_(cmat_hash_tbl_, U, hashU)
        step == GateStep(gate_type, hashU, ctrl, target, name)
    IN  IF added.err # "ok" THEN Throw(added.err, QC)
        ELSE [err |-> "ok",
              qc |-> [QC EXCEPT !.tbl = added.tbl,
                                !.gates = Append(@, step),
                                !.step_types = Append(@, "GATE"),
                                !.count = Bump(@, name, inc)],
              emit |-> step]

\* the default name of a plain gate and of a controlled gate
GateName(U, name) == IF name = "" THEN get_name(U) ELSE name

CtrlName(prefix, U, name) ==
    IF name = ""
    THEN (IF get_name(U) = "" THEN prefix ELSE prefix \o "-" \o get_name(U))
    ELSE name

\* for (auto&& elem : v) { if (elem >= nq_) throw OutOfRange;
\*                         if (get_measured(elem)) throw QuditAlreadyMeasured; }
check_qudits(v) ==
    LET bad == {k \in 1..Len(v) : v[k] >= nq_ \/ get_measured(v[k])}
    IN  IF bad = {} THEN "ok"
        ELSE LET k == CHOOSE k \in bad : \A j \in bad : k <= j
             IN  IF v[k] >= nq_ THEN "OutOfRange" ELSE "QuditAlreadyMeasured"

\* for (auto&& elem : ctrl_dits) if (elem >= nc_) throw OutOfRange
check_dits(v) ==
    IF \E k \in 1..Len(v) : v[k] >= nc_ THEN "OutOfRange" ELSE "ok"

\* the two checks on the matrix, against the dimension D the call expects
check_mat(U, D) ==
    IF ~check_square_mat(U) THEN "MatrixNotSquare"
    ELSE IF U.rows # D THEN "DimsMismatchMatrix"
    ELSE "ok"

Range(v) == {v[k] : k \in 1..Len(v)}


(***************************************************************************)
(* Builder member functions: plain gates.                                  *)
(***************************************************************************)
\* a variant of the try block of gate(U, i) without the get_measured test
gate_check_mut_no_measured(U, i) ==
    IF i >= nq_ THEN "OutOfRange"
    ELSE check_mat(U, d_)

\* gate(U, i): the try block
gate_check(U, i) ==
    IF i >= nq_ THEN "OutOfRange"
    ELSE IF get_measured(i) THEN "QuditAlreadyMeasured"
    ELSE check_mat(U, d_)

gate(U, i, name) ==
    LET e == gate_check(U, i)
    IN  IF e # "ok" THEN Throw(e, QC)
        ELSE EmitGate("SINGLE", U, <<>>, <<i>>, GateName(U, name), 1)

\* a variant of the try block of gate(U, i, j) without the i == j test
gate2_check_mut_no_distinct(U, i, j) ==
    IF i >= nq_ \/ j >= nq_ THEN "OutOfRange"
    ELSE IF get_measured(i) \/ get_measured(j) THEN "QuditAlreadyMeasured"
    ELSE check_mat(U, d_ * d_)

\* gate(U, i, j)
gate2_check(U, i, j) ==
    IF i >= nq_ \/ j >= nq_ \/ i = j THEN "OutOfRange"
    ELSE IF get_measured(i) \/ get_measured(j) THEN "QuditAlreadyMeasured"
    ELSE check_mat(U, d_ * d_)

gate2(U, i, j, name) ==
    LET e == gate2_check(U, i, j)
    IN  IF e # "ok" THEN Throw(e, QC)
        ELSE EmitGate("TWO", U, <<>>, <<i, j>>, GateName(U, name), 1)

\* gate(U, i, j, k)
gate3_check(U, i, j, k) ==
    IF i >= nq_ \/ j >= nq_ \/ k >= nq_ \/ i = j \/ i = k \/ j = k
    THEN "OutOfRange"
    ELSE IF get_measured(i) \/ get_measured(j) \/ get_measured(k)
    THEN "QuditAlreadyMeasured"
    ELSE check_mat(U, d_ * d_ * d_)

gate3(U, i, j, k, name) ==
    LET e == gate3_check(U, i, j, k)
    IN  IF e # "ok" THEN Throw(e, QC)
        ELSE EmitGate("THREE", U, <<>>, <<i, j, k>>, GateName(U, name), 1)

\* gate_fan(U, target)
gate_fan_check(U, target) ==
    IF Len(target) = 0 THEN "ZeroSize"
    ELSE IF check_qudits(target) # "ok" THEN check_qudits(target)
    ELSE IF ~check_no_duplicates(target) THEN "Duplicates"
    ELSE check_mat(U, d_)

\* a variant of gate_fan(U, target) that counts the step once
gate_fan_mut_inc_one(U, target, name) ==
    LET e == gate_fan_check(U, target)
    IN  IF e # "ok" THEN Throw(e, QC)
        ELSE EmitGate("FAN", U, <<>>, target, GateName(U, name), 1)

gate_fan(U, target, name) ==
    LET e == gate_fan_check(U, target)
    IN  IF e # "ok" THEN Throw(e, QC)
        ELSE EmitGate("FAN", U, <<>>, target, GateName(U, name), Len(target))

\* gate_fan(U): over every non-measured qudit
gate_fan_all_check(U) == check_mat(U, d_)

\* a variant of gate_fan(U) that targets every qudit of the circuit
gate_fan_all_mut_every_qudit(U, name) ==
    LET e == gate_fan_all_check(U)
        every == [k \in 1..nq_ |-> k - 1]
    IN  IF e # "ok" THEN Throw(e, QC)
        ELSE EmitGate("FAN", U, <<>>, every, GateName(U, name), Len(every))

gate_fan_all(U, name) ==
    LET e == gate_fan_all_check(U)
    IN  IF e # "ok" THEN Throw(e, QC)
        ELSE EmitGate("FAN", U, <<>>, get_non_measured, GateName(U, name),
                  Len(get_non_measured))

\* gate_custom(U, target); D = llround(pow(d_, n))
gate_custom_check(U, target) ==
    IF Len(target) = 0 THEN "ZeroSize"
    ELSE IF check_qudits(target) # "ok" THEN check_qudits(target)
    ELSE IF ~check_no_duplicates(target) THEN "Duplicates"
    ELSE check_mat(U, d_ ^ Len(target))

gate_custom(U, target, name) ==
    LET e == gate_custom_check(U, target)
    IN  IF e # "ok" THEN Throw(e, QC)
        ELSE EmitGate("CUSTOM", U, <<>>, target, GateName(U, name), 1)

\* QFT(target), TFQ(target): the try block throws, the tail is never reached
\* a variant of QFT(target) that stores a QFT step on the target
QFT_mut_emit(target) ==
    [err |-> "ok",
     qc |-> [QC EXCEPT !.gates = Append(@, GateStep("QFT", 0, <<>>, target, "QFT")),
                       !.step_types = Append(@, "GATE"),
                       !.count = Bump(@, "QFT", 1)],
     emit |-> GateStep("QFT", 0, <<>>, target, "QFT")]

QFT(target) == Throw("NotImplemented", QC)

TFQ(target) == Throw("NotImplemented", QC)

(***************************************************************************)
(* Builder member functions: quantum-controlled gates.                     *)
(***************************************************************************)
\* CTRL(U, idx ctrl, idx target)
CTRL_check(U, ctrl, target) ==
    IF ctrl >= nq_ \/ target >= nq_ \/ ctrl = target THEN "OutOfRange"
    ELSE IF get_measured(ctrl) \/ get_measured(target)
    THEN "QuditAlreadyMeasured"
    ELSE check_mat(U, d_)

CTRL(U, ctrl, target, name) ==
    LET e == CTRL_check(U, ctrl, target)
    IN  IF e # "ok" THEN Throw(e, QC)
        ELSE EmitGate("SINGLE_CTRL_SINGLE_TARGET", U, <<ctrl>>, <<target>>,
                  CtrlName("CTRL", U, name), 1)

\* CTRL(U, idx ctrl, vector target)
CTRL_1m_check(U, ctrl, target) ==
    IF ctrl >= nq_ THEN "OutOfRange"
    ELSE IF get_measured(ctrl) THEN "QuditAlreadyMeasured"
    ELSE IF Len(target) = 0 THEN "ZeroSize"
    ELSE IF check_qudits(target) # "ok" THEN check_qudits(target)
    ELSE IF ~check_no_duplicates(target) THEN "Duplicates"
    ELSE IF ctrl \in Range(target) THEN "OutOfRange"
    ELSE check_mat(U, d_)

CTRL_1m(U, ctrl, target, name) ==
    LET e == CTRL_1m_check(U, ctrl, target)
    IN  IF e # "ok" THEN Throw(e, QC)
        ELSE EmitGate("SINGLE_CTRL_MULTIPLE_TARGET", U, <<ctrl>>, target,
                  CtrlName("CTRL", U, name), 1)

\* CTRL(U, vector ctrl, idx target)
CTRL_m1_check(U, ctrl, target) ==
    IF check_qudits(ctrl) # "ok" THEN check_qudits(ctrl)
    ELSE IF ~check_no_duplicates(ctrl) THEN "Duplicates"
    ELSE IF target >= nq_ THEN "OutOfRange"
    ELSE IF get_measured(target) THEN "QuditAlreadyMeasured"
    ELSE IF target \in Range(ctrl) THEN "OutOfRange"
    ELSE check_mat(U, d_)

CTRL_m1(U, ctrl, target, name) ==
    LET e == CTRL_m1_check(U, ctrl, target)
    IN  IF e # "ok" THEN Throw(e, QC)
        ELSE EmitGate("MULTIPLE_CTRL_SINGLE_TARGET", U, ctrl, <<target>>,
                  CtrlName("CTRL", U, name), 1)

\* CTRL(U, vector ctrl, vector target)
CTRL_mm_check(U, ctrl, target) ==
    IF check_qudits(ctrl) # "ok" THEN check_qudits(ctrl)
    ELSE IF ~check_no_duplicates(ctrl) THEN "Duplicates"
    ELSE IF Len(target) = 0 THEN "ZeroSize"
    ELSE IF check_qudits(target) # "ok" THEN check_qudits(target)
    ELSE IF ~check_no_duplicates(target) THEN "Duplicates"
    ELSE IF Range(ctrl) \cap Range(target) # {} THEN "OutOfRange"
    ELSE check_mat(U, d_)

CTRL_mm(U, ctrl, target, name) ==
    LET e == CTRL_mm_check(U, ctrl, target)
    IN  IF e # "ok" THEN Throw(e, QC)
        ELSE EmitGate("MULTIPLE_CTRL_MULTIPLE_TARGET", U, ctrl, target,
                  CtrlName("CTRL", U, name), 1)

\* CTRL_custom(U, vector ctrl, vector target); D = llround(pow(d_, n));
\* the target list is not checked for duplicates
CTRL_custom_check(U, ctrl, target) ==
    IF check_qudits(ctrl) # "ok" THEN check_qudits(ctrl)
    ELSE IF ~check_no_duplicates(ctrl) THEN "Duplicates"
    ELSE IF Len(target) = 0 THEN "ZeroSize"
    ELSE IF check_qudits(target) # "ok" THEN check_qudits(target)
    ELSE IF Range(ctrl) \cap Range(target) # {} THEN "OutOfRange"
    ELSE check_mat(U, d_ ^ Len(target))

CTRL_custom(U, ctrl, target, name) ==
    LET e == CTRL_custom_check(U, ctrl, target)
    IN  IF e # "ok" THEN Throw(e, QC)
        ELSE EmitGate("CUSTOM_CTRL", U, ctrl, target, CtrlName("CTRL", U, name), 1)

(***************************************************************************)
(* Builder member functions: classically-controlled gates.  ctrl_ of the   *)
(* stored step holds dit indices.                                          *)
(***************************************************************************)
\* cCTRL(U, idx ctrl_dit, idx target)
cCTRL_check(U, ctrl_dit, target) ==
    IF ctrl_dit >= nc_ \/ target >= nq_ THEN "OutOfRange"
    ELSE IF get_measured(target) THEN "QuditAlreadyMeasured"
    ELSE check_mat(U, d_)

cCTRL(U, ctrl_dit, target, name) ==
    LET e == cCTRL_check(U, ctrl_dit, target)
    IN  IF e # "ok" THEN Throw(e, QC)
        ELSE EmitGate("SINGLE_cCTRL_SINGLE_TARGET", U, <<ctrl_dit>>, <<target>>,
                  CtrlName("cCTRL", U, name), 1)

\* cCTRL(U, idx ctrl_dit, vector target)
cCTRL_1m_check(U, ctrl_dit, target) ==
    IF ctrl_dit >= nc_ THEN "OutOfRange"
    ELSE IF Len(target) = 0 THEN "ZeroSize"
    ELSE IF check_qudits(target) # "ok" THEN check_qudits(target)
    ELSE IF ~check_no_duplicates(target) THEN "Duplicates"
    ELSE check_mat(U, d_)

cCTRL_1m(U, ctrl_dit, target, name) ==
    LET e == cCTRL_1m_check(U, ctrl_dit, target)
    IN  IF e # "ok" THEN Throw(e, QC)
        ELSE EmitGate("SINGLE_cCTRL_MULTIPLE_TARGET", U, <<ctrl_dit>>, target,
                  CtrlName("cCTRL", U, name), 1)

\* cCTRL(U, vector ctrl_dits, idx target)
cCTRL_m1_check(U, ctrl_dits, target) ==
    IF check_dits(ctrl_dits) # "ok" THEN check_dits(ctrl_dits)
    ELSE IF ~check_no_duplicates(ctrl_dits) THEN "Duplicates"
    ELSE IF target >= nq_ THEN "OutOfRange"
    ELSE IF get_measured(target) THEN "QuditAlreadyMeasured"
    ELSE check_mat(U, d_)

cCTRL_m1(U, ctrl_dits, target, name) ==
    LET e == cCTRL_m1_check(U, ctrl_dits, target)
    IN  IF e # "ok" THEN Throw(e, QC)
        ELSE EmitGate("MULTIPLE_cCTRL_SINGLE_TARGET", U, ctrl_dits, <<target>>,
                  CtrlName("cCTRL", U, name), 1)

\* cCTRL(U, vector ctrl_dits, vector target)
cCTRL_mm_check(U, ctrl_dits, target) ==
    IF check_dits(ctrl_dits) # "ok" THEN check_dits(ctrl_dits)
    ELSE IF ~check_no_duplicates(ctrl_dits) THEN "Duplicates"
    ELSE IF Len(target) = 0 THEN "ZeroSize"
    ELSE IF check_qudits(target) # "ok" THEN check_qudits(target)
    ELSE IF ~check_no_duplicates(target) THEN "Duplicates"
    ELSE check_mat(U, d_)

cCTRL_mm(U, ctrl_dits, target, name) ==
    LET e == cCTRL_mm_check(U, ctrl_dits, target)
    IN  IF e # "ok" THEN Throw(e, QC)
        ELSE EmitGate("MULTIPLE_cCTRL_MULTIPLE_TARGET", U, ctrl_dits, target,
                  CtrlName("cCTRL", U, name), 1)

\* cCTRL_custom(U, vector ctrl_dits, vector target); D = llround(pow(d_, n))
cCTRL_custom_check(U, ctrl_dits, target) ==
    IF check_dits(ctrl_dits) # "ok" THEN check_dits(ctrl_dits)
    ELSE IF ~check_no_duplicates(ctrl_dits) THEN "Duplicates"
    ELSE IF Len(target) = 0 THEN "ZeroSize"
    ELSE IF check_qudits(target) # "ok" THEN check_qudits(target)
    ELSE IF ~check_no_duplicates(target) THEN "Duplicates"
    ELSE check_mat(U, d_ ^ Len(target))

cCTRL_custom(U, ctrl_dits, target, name) ==
    LET e == cCTRL_custom_check(U, ctrl_dits, target)
    IN  IF e # "ok" THEN Throw(e, QC)
        ELSE EmitGate("CUSTOM_cCTRL", U, ctrl_dits, target,
                  CtrlName("cCTRL", U, name), 1)

(***************************************************************************)
(* Builder member functions: measurements.                                 *)
(***************************************************************************)
\* a variant of the tail that overwrites measurements_ with the new step
EmitMeasure_mut_drop(measurement_type, mats_hash, target, c_reg, name) ==
    LET step == MeasureStep(measurement_type, mats_hash, target, c_reg, name)
    IN  [err |-> "ok",
         qc |-> [QC EXCEPT !.measured = [i \in DOMAIN @ |->
                                            IF i \in Range(target) THEN TRUE ELSE @[i]],
                           !.measurements = <<step>>,
                           !.step_types = Append(@, "MEASUREMENT"),
                           !.mcount = Bump(@, name, 1)],
         emit |-> step]

\* the tail of every measurement member function:
\*   measured_[t] = true for the targets; measurements_.emplace_back(...);
\*   step_types_.push_back(StepType::MEASUREMENT); ++measurement_count_[name]
\* (no measurement member function calls add_hash_)
EmitMeasure(measurement_type, mats_hash, target, c_reg, name) ==
    LET step == MeasureStep(measurement_type, mats_hash, target, c_reg, name)
    IN  [err |-> "ok",
         qc |-> [QC EXCEPT !.measured = [i \in DOMAIN @ |->
                                            IF i \in Range(target) THEN TRUE ELSE @[i]],
                           !.measurements = Append(@, step),
                           !.step_types = Append(@, "MEASUREMENT"),
                           !.mcount = Bump(@, name, 1)],
         emit |-> step]

\* a variant of the try block of measureZ(target, c_reg) without the
\* get_measured(target) test
measureZ_check_mut_no_measured(target, c_reg) ==
    IF target >= nq_ THEN "OutOfRange"
    ELSE IF c_reg >= nc_ THEN "OutOfRange"
    ELSE "ok"

\* a variant of the try block of measureZ without the c_reg test
measureZ_check_mut_no_c_reg(target, c_reg) ==
    IF target >= nq_ THEN "OutOfRange"
    ELSE IF get_measured(target) THEN "QuditAlreadyMeasured"
    ELSE "ok"

\* measureZ(target, c_reg)
measureZ_check(target, c_reg) ==
    IF target >= nq_ THEN "OutOfRange"
    ELSE IF c_reg >= nc_ THEN "OutOfRange"
    ELSE IF get_measured(target) THEN "QuditAlreadyMeasured"
    ELSE "ok"

measureZ(target, c_reg, name) ==
    LET e == measureZ_check(target, c_reg)
    IN  IF e # "ok" THEN Throw(e, QC)
        ELSE EmitMeasure("MEASURE_Z", <<>>, <<target>>, c_reg,
                     IF name = "" THEN "Z" ELSE name)

\* measureV(V, idx target, c_reg): V is not checked
\* a variant of the try block of measureV(V, target, c_reg) without the
\* c_reg >= nc_ test
measureV_check_mut_no_c_reg(V, target, c_reg) ==
    IF target >= nq_ THEN "OutOfRange"
    ELSE IF get_measured(target) THEN "QuditAlreadyMeasured"
    ELSE "ok"

measureV_check(V, target, c_reg) ==
    IF target >= nq_ THEN "OutOfRange"
    ELSE IF c_reg >= nc_ THEN "OutOfRange"
    ELSE IF get_measured(target) THEN "QuditAlreadyMeasured"
    ELSE "ok"

measureV(V, target, c_reg, name) ==
    LET e == measureV_check(V, target, c_reg)
    IN  IF e # "ok" THEN Throw(e, QC)
        ELSE EmitMeasure("MEASURE_V", <<hash_eigen(V)>>, <<target>>, c_reg,
                     GateName(V, name))

\* measureV(V, vector target, c_reg): V is not checked
measureV_many_check(V, target, c_reg) ==
    IF Len(target) = 0 THEN "ZeroSize"
    ELSE IF check_qudits(target) # "ok" THEN check_qudits(target)
    ELSE IF ~check_no_duplicates(target) THEN "Duplicates"
    ELSE IF c_reg >= nc_ THEN "OutOfRange"
    ELSE "ok"

measureV_many(V, target, c_reg, name) ==
    LET e == measureV_many_check(V, target, c_reg)
    IN  IF e # "ok" THEN Throw(e, QC)
        ELSE EmitMeasure("MEASURE_V_MANY", <<hash_eigen(V)>>, target, c_reg,
                     GateName(V, name))

(***************************************************************************)
(* Arguments of the calls.  An index nq_ (a dit index nc_) is out of range.*)
(***************************************************************************)
Idx == 0..nq_

Dit == 0..nc_

Lists(S) == UNION {[1..k -> S] : k \in 0..MaxLen}

Names == {"", "g"}

NoMat == [rows |-> 0, cols |-> 0, v |-> 0]

NoReg == -1

\* the record of a call: f is the member function; U its matrix (NoMat when it
\* takes none); ctrl and target its control and target indices, in the order
\* given (a single index is a list of one); c_reg its classical register
\* (NoReg when it takes none)
\* the arguments of a call that has neither an index, a value nor a step
\* descriptor
NoArg == [i |-> 0, value |-> 0, qc |-> "this"]

CallRec(f, U, ctrl, target, c_reg, name) ==
    [f |-> f, U |-> U, ctrl |-> ctrl, target |-> target, c_reg |-> c_reg,
     name |-> name]

(***************************************************************************)
(* QCircuit::iterator.  An idx is kept modulo its width: a negative integer *)
(* x stands for the idx 2^w + x, so that -1 is static_cast<idx>(-1), the   *)
(* largest idx, and x - 1, x + 1 wrap as the unsigned arithmetic does.     *)
(* gates_ip_ and measurements_ip_ are kept as offsets from the begin of    *)
(* their vectors.                                                          *)
(***************************************************************************)
\* static_cast<idx>(-1)
idx_max == -1

\* a > b on idx, an unsigned type whose largest value is idx_max
idx_greater(a, b) ==
    IF a = idx_max THEN b # idx_max
    ELSE b # idx_max /\ a > b

\* iterator(): qc_{nullptr}, elem_{nullptr}; the two vector iterators are
\* value-initialised and point into no vector
value_type_(value_type_qc) ==
    [value_type_qc_ |-> value_type_qc, type_ |-> "NONE", ip_ |-> idx_max,
     gates_ip_ |-> idx_max, measurements_ip_ |-> idx_max]

iterator == [qc_ |-> "nullptr", elem_ |-> value_type_("nullptr")]

\* iterator::set_begin_(qc)
set_begin_(qc) ==
    IF qc = "nullptr" THEN iterator
    ELSE [qc_ |-> qc,
          elem_ |-> [value_type_qc_ |-> qc,
                     type_ |-> IF get_step_count # 0 THEN step_types_[1] ELSE "NONE",
                     ip_ |-> IF get_step_count # 0 THEN 0 ELSE idx_max,
                     gates_ip_ |-> 0,
                     measurements_ip_ |-> 0]]

\* iterator::set_end_(qc)
set_end_(qc) ==
    IF qc = "nullptr" THEN iterator
    ELSE [qc_ |-> qc,
          elem_ |-> [value_type_qc_ |-> qc,
                     type_ |-> "NONE",
                     ip_ |-> IF get_step_count # 0 THEN get_step_count ELSE idx_max,
                     gates_ip_ |-> Len(gates_),
                     measurements_ip_ |-> Len(measurements_)]]

\* QCircuit::begin(), QCircuit::end()
begin == set_begin_("this")

end == set_end_("this")

\* a variant of operator++() that leaves the measurement sub-cursor alone
increment_mut_no_measurements_ip(i) ==
    IF i.qc_ = "nullptr" THEN [err |-> "InvalidIterator", it |-> i]
    ELSE IF get_step_count = 0 THEN [err |-> "InvalidIterator", it |-> i]
    ELSE IF i.elem_.ip_ = get_step_count THEN [err |-> "InvalidIterator", it |-> i]
    ELSE LET e == i.elem_
             ip == e.ip_ + 1
         IN  [err |-> "ok",
              it |-> [i EXCEPT
                  !.elem_.gates_ip_ = IF e.type_ = "GATE" THEN @ + 1 ELSE @,
                  !.elem_.ip_ = ip,
                  !.elem_.type_ = IF ip = get_step_count THEN "NONE"
                                  ELSE step_types_[ip + 1]]]

\* iterator::operator++(): the three guards, then the sub-cursor of the
\* current type, the instruction pointer and the next type
increment(i) ==
    IF i.qc_ = "nullptr" THEN [err |-> "InvalidIterator", it |-> i]
    ELSE IF get_step_count = 0 THEN [err |-> "InvalidIterator", it |-> i]
    ELSE IF i.elem_.ip_ = get_step_count THEN [err |-> "InvalidIterator", it |-> i]
    ELSE LET e == i.elem_
             ip == e.ip_ + 1
         IN  [err |-> "ok",
              it |-> [i EXCEPT
                  !.elem_.gates_ip_ = IF e.type_ = "GATE" THEN @ + 1 ELSE @,
                  !.elem_.measurements_ip_ =
                      IF e.type_ = "MEASUREMENT" THEN @ + 1 ELSE @,
                  !.elem_.ip_ = ip,
                  !.elem_.type_ = IF ip = get_step_count THEN "NONE"
                                  ELSE step_types_[ip + 1]]]

\* iterator::operator==: the tie of the four fields of elem_
iterator_eq(a, b) ==
    <<a.elem_.type_, a.elem_.ip_, a.elem_.gates_ip_, a.elem_.measurements_ip_>>
        = <<b.elem_.type_, b.elem_.ip_, b.elem_.gates_ip_, b.elem_.measurements_ip_>>

\* iterator::operator*()
dereference(i) ==
    IF i.qc_ = "nullptr" \/ i.elem_.ip_ = get_step_count
    THEN [err |-> "InvalidIterator", elem |-> i.elem_]
    ELSE [err |-> "ok", elem |-> i.elem_]

\* begin() after k increments, and whether one of the increments threw
RECURSIVE advance(_)
advance(k) ==
    IF k = 0 THEN [err |-> "ok", it |-> begin]
    ELSE LET a == advance(k - 1)
         IN  IF a.err # "ok" THEN a ELSE increment(a.it)

\* the step descriptors that dereferencing an iterator over this circuit
\* gives: *it for it = begin() incremented k times
StepElems ==
    {dereference(advance(k).it).elem :
        k \in {j \in 0..get_step_count : dereference(advance(j).it).err = "ok"}}

(***************************************************************************)
(* The primitives the engine consumes: apply, applyCTRL, powm, measure_seq *)
(* and measure.  A ket is the number of qudits it holds and the list of    *)
(* the operations that made it from the zero state; a probability is "0"   *)
(* or "p", the probability of the outcome that was sampled.                *)
(***************************************************************************)
\* States::zero(n, d)
zero(n, d) == [n |-> n, ops |-> <<>>]

Applied(f, A, ctrl, target, res) ==
    [f |-> f, A |-> A, ctrl |-> ctrl, target |-> target, res |-> res]

\* apply(psi, A, target, d)
apply(psi, A, target, d) ==
    [psi EXCEPT !.ops = Append(@, Applied("apply", A, <<>>, target, 0))]

\* applyCTRL(psi, A, ctrl, target, d)
applyCTRL(psi, A, ctrl, target, d) ==
    [psi EXCEPT !.ops = Append(@, Applied("applyCTRL", A, ctrl, target, 0))]

\* powm(A, n): A^0 is the identity, A^1 is A
powm(A, n) ==
    [A EXCEPT !.v = IF n = 0 THEN 2 ELSE IF n = 1 THEN @ ELSE 2 * n + @]

\* measure_seq(psi, target, d) when the outcomes sampled are res: the
\* outcomes, their probability and the ket without the target qudits
measure_seq(psi, target, d, res) ==
    [resZ |-> res, probZ |-> "p",
     psi |-> [n |-> psi.n - Len(target),
              ops |-> Append(psi.ops,
                             Applied("measure_seq", NoMat, <<>>, target, res[1]))]]

\* measure(psi, V, target, d) when the outcome sampled is m, one of the
\* columns of V: the outcome, its probability and the ket without the target
\* qudits; a V without columns has no outcome
measure(psi, V, target, d, m) ==
    IF V.cols = 0 THEN [err |-> "ZeroSize", mres |-> 0, prob |-> "0", psi |-> psi]
    ELSE [err |-> "ok", mres |-> m, prob |-> "p",
          psi |-> [n |-> psi.n - Len(target),
                   ops |-> Append(psi.ops,
                                  Applied("measure", V, <<>>, target, m))]]

(***************************************************************************)
(* QEngine.  dits_, probs_ and subsys_ are indexed from 0.                 *)
(***************************************************************************)
Engine == [psi |-> psi_, dits |-> dits_, probs |-> probs_, subsys |-> subsys_]

\* a throw out of the engine: the engine is as it is at the throw
EngineThrow(e, eng) == [err |-> e, eng |-> eng]

\* QEngine::get_measured(i) on a subsys_ vector
engine_get_measured(subsys, i) == subsys[i] = idx_max

\* QEngine::get_measured(), QEngine::get_non_measured(): ascending
RECURSIVE engine_measured_from(_, _, _)
engine_measured_from(subsys, i, want) ==
    IF i >= nq_ THEN <<>>
    ELSE (IF engine_get_measured(subsys, i) = want THEN <<i>> ELSE <<>>)
            \o engine_measured_from(subsys, i + 1, want)

engine_get_measured_all == engine_measured_from(subsys_, 0, TRUE)

engine_get_non_measured == engine_measured_from(subsys_, 0, FALSE)

\* a variant of set_measured_(i) that shifts the entries and writes no
\* sentinel
set_measured_mut_no_sentinel(subsys, i) ==
    IF engine_get_measured(subsys, i)
    THEN [err |-> "QuditAlreadyMeasured", subsys |-> subsys]
    ELSE [err |-> "ok",
          subsys |-> [m \in DOMAIN subsys |->
                         IF m > i /\ ~engine_get_measured(subsys, m)
                         THEN subsys[m] - 1 ELSE subsys[m]]]

\* a variant of set_measured_(i) whose loop decrements every entry from m = i
\* without the test of get_measured(m)
set_measured_mut_no_test(subsys, i) ==
    IF engine_get_measured(subsys, i)
    THEN [err |-> "QuditAlreadyMeasured", subsys |-> subsys]
    ELSE LET marked == [subsys EXCEPT ![i] = idx_max]
         IN  [err |-> "ok",
              subsys |-> [m \in DOMAIN marked |->
                             IF m >= i THEN marked[m] - 1 ELSE marked[m]]]

\* a variant of set_measured_(i) without the loop that decrements
set_measured_mut_no_shift(subsys, i) ==
    IF engine_get_measured(subsys, i)
    THEN [err |-> "QuditAlreadyMeasured", subsys |-> subsys]
    ELSE [err |-> "ok", subsys |-> [subsys EXCEPT ![i] = idx_max]]

\* QEngine::set_measured_(i): the sentinel, then the loop from m = i that
\* decrements the entries of the qudits that are not measured
set_measured_(subsys, i) ==
    IF engine_get_measured(subsys, i)
    THEN [err |-> "QuditAlreadyMeasured", subsys |-> subsys]
    ELSE LET marked == [subsys EXCEPT ![i] = idx_max]
         IN  [err |-> "ok",
              subsys |-> [m \in DOMAIN marked |->
                             IF m >= i /\ ~engine_get_measured(marked, m)
                             THEN marked[m] - 1 ELSE marked[m]]]

\* set_measured_ on every entry of a target list, in order
RECURSIVE set_measured_each(_, _, _)
set_measured_each(subsys, target, k) ==
    IF k > Len(target) THEN [err |-> "ok", subsys |-> subsys]
    ELSE LET r == set_measured_(subsys, target[k])
         IN  IF r.err # "ok" THEN r
             ELSE set_measured_each(r.subsys, target, k + 1)

\* QEngine::get_relative_pos_(v)
get_relative_pos_(subsys, v) ==
    IF \E k \in 1..Len(v) : engine_get_measured(subsys, v[k])
    THEN [err |-> "QuditAlreadyMeasured", v |-> v]
    ELSE [err |-> "ok", v |-> [k \in 1..Len(v) |-> subsys[v[k]]]]

\* QEngine::QEngine(qc)
QEngine ==
    [psi |-> zero(nq_, d_),
     dits |-> [i \in 0..(nc_ - 1) |-> 0],
     probs |-> [i \in 0..(nc_ - 1) |-> "0"],
     subsys |-> [i \in 0..(nq_ - 1) |-> i]]

\* h_tbl[hash] on the copy of the hash table: a key that is missing is
\* inserted with an empty matrix
h_tbl(hash) ==
    IF hash \in DOMAIN cmat_hash_tbl_ THEN cmat_hash_tbl_[hash] ELSE NoMat

\* a variant of the FAN loop that applies the gate once, on the whole list
apply_each_mut_once(psi, A, target, k) == apply(psi, A, target, d_)

\* FAN: apply on each target in turn
RECURSIVE apply_each(_, _, _, _)
apply_each(psi, A, target, k) ==
    IF k > Len(target) THEN psi
    ELSE apply_each(apply(psi, A, <<target[k]>>, d_), A, target, k + 1)

\* a variant of the gate step of execute(elem) that applies the matrix to the
\* target and marks the first qudit of the target measured
execute_gate_mut_mark_target(g, ub) ==
    LET tr == get_relative_pos_(subsys_, g.target_)
    IN  IF tr.err # "ok" THEN EngineThrow(tr.err, Engine)
        ELSE [err |-> "ok",
              eng |-> [Engine EXCEPT
                          !.psi = apply(@, h_tbl(g.gate_hash_), tr.v, d_),
                          !.subsys = set_measured_(@, g.target_[1]).subsys]]

\* QEngine::execute(elem), a gate step.  dits_[ctrl_[0]] of a classically
\* controlled step whose ctrl_ is empty reads outside the vector: the value
\* read is any idx, here ub
execute_gate(g, ub) ==
    LET tr == get_relative_pos_(subsys_, g.target_)
        U == h_tbl(g.gate_hash_)
    IN  IF tr.err # "ok" THEN EngineThrow(tr.err, Engine)
        ELSE IF g.gate_type_ \in {"SINGLE", "TWO", "THREE", "CUSTOM"}
        THEN [err |-> "ok", eng |-> [Engine EXCEPT !.psi = apply(@, U, tr.v, d_)]]
        ELSE IF g.gate_type_ = "FAN"
        THEN [err |-> "ok", eng |-> [Engine EXCEPT !.psi = apply_each(@, U, tr.v, 1)]]
        ELSE IF g.gate_type_ \in QuantumCtrlTypes \cup {"QFT", "TFQ"}
        THEN LET cr == get_relative_pos_(subsys_, g.ctrl_)
             IN  IF cr.err # "ok" THEN EngineThrow(cr.err, Engine)
                 ELSE [err |-> "ok",
                       eng |-> [Engine EXCEPT
                                   !.psi = applyCTRL(@, U, cr.v, tr.v, d_)]]
        ELSE IF g.gate_type_ \in ClassicalCtrlTypes
        THEN IF DOMAIN dits_ = {}
             THEN [err |-> "ok", eng |-> [Engine EXCEPT !.psi = apply(@, U, tr.v, d_)]]
             ELSE LET first_dit == IF Len(g.ctrl_) = 0 THEN ub
                                   ELSE dits_[g.ctrl_[1]]
                      should_apply ==
                          \A k \in 1..Len(g.ctrl_) : dits_[g.ctrl_[k]] = first_dit
                  IN  IF should_apply
                      THEN [err |-> "ok",
                            eng |-> [Engine EXCEPT
                                !.psi = apply(@, powm(U, first_dit), tr.v, d_)]]
                      ELSE [err |-> "ok", eng |-> Engine]
        ELSE [err |-> "ok", eng |-> Engine]

\* a variant of the measurement step of execute(elem) whose MEASURE_Z case
\* writes the outcome to dits_[0]
execute_measurement_mut_first_dit(ms, m) ==
    LET tr == get_relative_pos_(subsys_, ms.target_)
    IN  IF tr.err # "ok" THEN EngineThrow(tr.err, Engine)
        ELSE IF ms.measurement_type_ = "MEASURE_Z"
        THEN LET r == measure_seq(psi_, tr.v, d_, <<m>>)
                 sm == set_measured_(subsys_, ms.target_[1])
             IN  [err |-> sm.err,
                  eng |-> [psi |-> r.psi,
                           dits |-> [dits_ EXCEPT ![0] = r.resZ[1]],
                           probs |-> [probs_ EXCEPT ![ms.c_reg_] = r.probZ],
                           subsys |-> sm.subsys]]
        ELSE IF ms.measurement_type_ \in {"MEASURE_V", "MEASURE_V_MANY"}
        THEN LET r == measure(psi_, h_tbl(ms.mats_hash_[1]), tr.v, d_, m)
                 sm == IF ms.measurement_type_ = "MEASURE_V"
                       THEN set_measured_(subsys_, ms.target_[1])
                       ELSE set_measured_each(subsys_, ms.target_, 1)
             IN  IF r.err # "ok" THEN EngineThrow(r.err, Engine)
                 ELSE [err |-> sm.err,
                       eng |-> [psi |-> r.psi,
                                dits |-> [dits_ EXCEPT ![ms.c_reg_] = r.mres],
                                probs |-> [probs_ EXCEPT ![ms.c_reg_] = r.prob],
                                subsys |-> sm.subsys]]
        ELSE [err |-> "ok", eng |-> Engine]

\* QEngine::execute(elem), a measurement step whose sampled outcome is m
execute_measurement(ms, m) ==
    LET tr == get_relative_pos_(subsys_, ms.target_)
    IN  IF tr.err # "ok" THEN EngineThrow(tr.err, Engine)
        ELSE IF ms.measurement_type_ = "MEASURE_Z"
        THEN LET r == measure_seq(psi_, tr.v, d_, <<m>>)
                 sm == set_measured_(subsys_, ms.target_[1])
             IN  [err |-> sm.err,
                  eng |-> [psi |-> r.psi,
                           dits |-> [dits_ EXCEPT ![ms.c_reg_] = r.resZ[1]],
                           probs |-> [probs_ EXCEPT ![ms.c_reg_] = r.probZ],
                           subsys |-> sm.subsys]]
        ELSE IF ms.measurement_type_ \in {"MEASURE_V", "MEASURE_V_MANY"}
        THEN LET r == measure(psi_, h_tbl(ms.mats_hash_[1]), tr.v, d_, m)
                 sm == IF ms.measurement_type_ = "MEASURE_V"
                       THEN set_measured_(subsys_, ms.target_[1])
                       ELSE set_measured_each(subsys_, ms.target_, 1)
             IN  IF r.err # "ok" THEN EngineThrow(r.err, Engine)
                 ELSE [err |-> sm.err,
                       eng |-> [psi |-> r.psi,
                                dits |-> [dits_ EXCEPT ![ms.c_reg_] = r.mres],
                                probs |-> [probs_ EXCEPT ![ms.c_reg_] = r.prob],
                                subsys |-> sm.subsys]]
        ELSE [err |-> "ok", eng |-> Engine]

\* a variant of execute(elem) without the test of elem.value_type_qc_
execute_mut_no_qc_check(elem, m, ub) ==
    IF elem.type_ = "GATE" /\ elem.gates_ip_ + 1 \in DOMAIN gates_
    THEN execute_gate(gates_[elem.gates_ip_ + 1], ub)
    ELSE IF elem.type_ = "MEASUREMENT"
            /\ elem.measurements_ip_ + 1 \in DOMAIN measurements_
    THEN execute_measurement(measurements_[elem.measurements_ip_ + 1], m)
    ELSE [err |-> "ok", eng |-> Engine]

\* QEngine::execute(const value_type& elem)
execute(elem, m, ub) ==
    IF elem.value_type_qc_ # "this" THEN EngineThrow("InvalidIterator", Engine)
    ELSE IF elem.type_ = "GATE" THEN execute_gate(gates_[elem.gates_ip_ + 1], ub)
    ELSE IF elem.type_ = "MEASUREMENT"
    THEN execute_measurement(measurements_[elem.measurements_ip_ + 1], m)
    ELSE [err |-> "ok", eng |-> Engine]

\* QEngine::execute(const iterator& it): execute(*it)
execute_it(i, m, ub) ==
    IF dereference(i).err # "ok" THEN EngineThrow(dereference(i).err, Engine)
    ELSE execute(dereference(i).elem, m, ub)

\* the outcomes a step can sample: a digit for MEASURE_Z, a column of V for
\* MEASURE_V and MEASURE_V_MANY
Outcomes(elem) ==
    IF elem.type_ # "MEASUREMENT" THEN {0}
    ELSE LET ms == measurements_[elem.measurements_ip_ + 1]
         IN  IF ms.measurement_type_ = "MEASURE_Z" THEN 0..(d_ - 1)
             ELSE IF h_tbl(ms.mats_hash_[1]).cols = 0 THEN {0}
             ELSE 0..(h_tbl(ms.mats_hash_[1]).cols - 1)

\* the values an idx read outside dits_ can have: a dit value or any other idx
Garbage(elem) ==
    IF elem.type_ = "GATE" /\ DOMAIN dits_ # {}
       /\ gates_[elem.gates_ip_ + 1].gate_type_ \in ClassicalCtrlTypes
       /\ Len(gates_[elem.gates_ip_ + 1].ctrl_) = 0
    THEN 0..d_
    ELSE {0}

\* the step descriptors of an iterator over another circuit that has a step
OtherElems ==
    {[value_type_qc_ |-> "other", type_ |-> t, ip_ |-> 0, gates_ip_ |-> 0,
      measurements_ip_ |-> 0] : t \in {"GATE", "MEASUREMENT"}}

\* the digests execute(elem) looks up in h_tbl
Looked(elem) ==
    IF elem.value_type_qc_ # "this" THEN {}
    ELSE IF elem.type_ = "GATE"
    THEN LET g == gates_[elem.gates_ip_ + 1]
         IN  IF get_relative_pos_(subsys_, g.target_).err = "ok"
             THEN {g.gate_hash_} ELSE {}
    ELSE IF elem.type_ = "MEASUREMENT"
    THEN LET ms == measurements_[elem.measurements_ip_ + 1]
         IN  IF /\ get_relative_pos_(subsys_, ms.target_).err = "ok"
                /\ ms.measurement_type_ \in {"MEASURE_V", "MEASURE_V_MANY"}
             THEN {ms.mats_hash_[1]} ELSE {}
    ELSE {}

\* the local h_tbl of execute(elem) when it returns: operator[] has inserted
\* an empty matrix for every digest that was absent
h_tbl_after(elem) ==
    [h \in DOMAIN cmat_hash_tbl_ \cup Looked(elem) |-> h_tbl(h)]

\* a variant of execute(elem) whose h_tbl is a reference to the table of
\* the circuit
execute_tbl_mut_reference(elem) == h_tbl_after(elem)

\* cmat_hash_tbl_ of the circuit after execute(elem): h_tbl is declared
\* auto, a copy of what get_cmat_hash_tbl_() refers to, and qc_ points to a
\* const QCircuit
execute_tbl(elem) == cmat_hash_tbl_

\* the outcomes of a read of dits_[nc]: any idx, or a fault
OutsideReads ==
    {[err |-> "ok", result |-> v] : v \in 0..d_}
        \cup {[err |-> "SIGSEGV", result |-> 0]}

\* the outcomes of a write of dits_[nc]: the members are as they were, or a
\* fault
OutsideWrites == {"ok", "SIGSEGV"}

\* QEngine::get_dit(i): the test is i > nc, so i = nc reads outside dits_
get_dit(i, ub) ==
    IF i > nc_ THEN [err |-> "OutOfRange", result |-> 0]
    ELSE IF i = nc_ THEN ub
    ELSE [err |-> "ok", result |-> dits_[i]]

\* QEngine::set_dit(i, value): the test is i > nc, so i = nc writes outside
\* dits_; value is not tested
set_dit(i, value, ub) ==
    IF i > nc_ THEN EngineThrow("OutOfRange", Engine)
    ELSE IF i = nc_ THEN [err |-> ub, eng |-> Engine]
    ELSE [err |-> "ok", eng |-> [Engine EXCEPT !.dits[i] = value]]

\* a variant of reset() without the std::iota on subsys_
reset_mut_keep_subsys ==
    [psi |-> zero(nq_, d_),
     dits |-> [i \in 0..(nc_ - 1) |-> 0],
     probs |-> [i \in 0..(nc_ - 1) |-> "0"],
     subsys |-> subsys_]

\* QEngine::reset()
reset ==
    [psi |-> zero(nq_, d_),
     dits |-> [i \in 0..(nc_ - 1) |-> 0],
     probs |-> [i \in 0..(nc_ - 1) |-> "0"],
     subsys |-> [i \in DOMAIN subsys_ |-> i]]

(***************************************************************************)
(* The amplitudes of a ket of qubits on which Hadamard and PauliX were     *)
(* applied and qubits were measured: a function from the basis states (the *)
(* bits of the qubits, position p of the ket at index p + 1) to integers,  *)
(* the amplitudes up to one common positive factor.                        *)
(***************************************************************************)
Basis(n) == [1..n -> 0..1]

Flip(b, p) == [b EXCEPT ![p + 1] = 1 - @]

\* States::zero
ZeroAmp(n) == [b \in Basis(n) |-> IF \A k \in 1..n : b[k] = 0 THEN 1 ELSE 0]

\* A on the qubit at position p
ApplyAmp(k, n, A, p) ==
    IF A = Hadamard
    THEN [b \in Basis(n) |->
             IF b[p + 1] = 0 THEN k[b] + k[Flip(b, p)]
             ELSE k[Flip(b, p)] - k[b]]
    ELSE IF A = PauliX THEN [b \in Basis(n) |-> k[Flip(b, p)]]
    ELSE k

\* A on the qubit at position t when the qubit at position c is 1
ApplyCTRLAmp(k, n, A, c, t) ==
    LET on == ApplyAmp(k, n, A, t)
    IN  [b \in Basis(n) |-> IF b[c + 1] = 1 THEN on[b] ELSE k[b]]

RECURSIVE SumSq(_, _)
SumSq(k, B) ==
    IF B = {} THEN 0
    ELSE LET b == CHOOSE x \in B : TRUE
         IN  k[b] * k[b] + SumSq(k, B \ {b})

\* the weight of outcome m of a measurement in the computational basis of
\* the qubit at position p; its probability is Weight(k, n, p, m) over
\* SumSq(k, Basis(n))
Weight(k, n, p, m) == SumSq(k, {b \in Basis(n) : b[p + 1] = m})

\* the ket after outcome m on the qubit at position p, without that qubit
Collapse(k, n, p, m) ==
    [b \in Basis(n - 1) |->
        k[[j \in 1..n |-> IF j < p + 1 THEN b[j]
                          ELSE IF j = p + 1 THEN m ELSE b[j - 1]]]]

\* the number of qubits and the amplitudes after the first j operations of
\* ops on the zero state of n0 qubits
RECURSIVE Amp(_, _, _)
Amp(n0, ops, j) ==
    IF j = 0 THEN [n |-> n0, k |-> ZeroAmp(n0)]
    ELSE LET a == Amp(n0, ops, j - 1)
             o == ops[j]
         IN  IF o.f = "apply" /\ Len(o.target) = 1
             THEN [a EXCEPT !.k = ApplyAmp(@, a.n, o.A, o.target[1])]
             ELSE IF o.f = "applyCTRL" /\ Len(o.ctrl) = 1 /\ Len(o.target) = 1
             THEN [a EXCEPT !.k = ApplyCTRLAmp(@, a.n, o.A, o.ctrl[1], o.target[1])]
             ELSE IF o.f = "measure_seq" /\ Len(o.target) = 1
             THEN [n |-> a.n - 1, k |-> Collapse(a.k, a.n, o.target[1], o.res)]
             ELSE a

\* operation j of ops is a measurement whose outcome has the probability
\* num / den
ProbIs(n0, ops, j, num, den) ==
    LET a == Amp(n0, ops, j - 1)
    IN  /\ ops[j].f = "measure_seq"
        /\ Weight(a.k, a.n, ops[j].target[1], ops[j].res) * den
              = SumSq(a.k, Basis(a.n)) * num

\* every measurement of ops has an outcome of positive probability
RECURSIVE Possible(_, _, _)
Possible(n0, ops, j) ==
    IF j = 0 THEN TRUE
    ELSE /\ Possible(n0, ops, j - 1)
         /\ ops[j].f = "measure_seq"
               => LET a == Amp(n0, ops, j - 1)
                  IN  Weight(a.k, a.n, ops[j].target[1], ops[j].res) > 0

(***************************************************************************)
(* QNoisyEngine.  noise_results_ is indexed from 0, one sequence per step. *)
(***************************************************************************)
\* noise_(psi, i) when the Kraus operator that occurs is b: the ket with the
\* noise on the qudit at position i; get_last_idx() is b
noise(psi, i, b) ==
    [psi EXCEPT !.ops = Append(@, Applied("noise", NoMat, <<>>, <<i>>, b))]

\* the Kraus operators that can occur, one for each position of rel
Branches(rel) == [1..Len(rel) -> 0..(MaxKraus - 1)]

\* QNoisyEngine::QNoisyEngine(qc, noise), noise of dimension noise_d
QNoisyEngine(noise_d) ==
    [err |-> IF d_ # noise_d THEN "DimsNotEqual" ELSE "ok",
     eng |-> QEngine,
     noise_results |-> [ip \in 0..(get_step_count - 1) |-> <<>>]]

\* a variant of the loop of QNoisyEngine::execute that records one Kraus
\* operator for the whole step
RECURSIVE noise_each_mut_record_once(_, _, _, _, _)
noise_each_mut_record_once(psi, results, rel, bs, k) ==
    IF k > Len(rel) THEN [psi |-> psi, results |-> results]
    ELSE noise_each_mut_record_once(noise(psi, rel[k], bs[k]),
                                    IF k = 1 THEN Append(results, bs[k])
                                    ELSE results,
                                    rel, bs, k + 1)

\* QNoisyEngine::execute: the loop over target_rel_pos from its k-th
\* element, bs[k] the Kraus operator that occurs on rel[k]; results is
\* noise_results_[elem.ip_]
RECURSIVE noise_each(_, _, _, _, _)
noise_each(psi, results, rel, bs, k) ==
    IF k > Len(rel) THEN [psi |-> psi, results |-> results]
    ELSE noise_each(noise(psi, rel[k], bs[k]), Append(results, bs[k]),
                    rel, bs, k + 1)

\* QEngine::execute(elem) when psi_ holds psi, a ket of as many qudits as
\* psi_ that has more operations applied
execute_on(psi, elem, m, ub) ==
    LET r == execute(elem, m, ub)
    IN  [err |-> r.err,
         eng |-> [r.eng EXCEPT
                     !.psi.ops = psi.ops \o SubSeq(@, Len(psi_.ops) + 1, Len(@))]]

\* the outcomes of noise_results_[elem.ip_].emplace_back(...) when elem.ip_
\* is no index of noise_results_: the members are as they were, or a fault
OutsideRecords == {"ok", "SIGSEGV"}

\* QNoisyEngine::execute(const value_type& elem)
noisy_execute(elem, bs, m, ub, ubn) ==
    LET rel == get_relative_pos_(subsys_, engine_get_non_measured).v
        inside == elem.ip_ \in DOMAIN noise_results_
        n == noise_each(psi_, IF inside THEN noise_results_[elem.ip_] ELSE <<>>,
                        rel, bs, 1)
        nr == IF inside THEN [noise_results_ EXCEPT ![elem.ip_] = n.results]
              ELSE noise_results_
        r == execute_on(n.psi, elem, m, ub)
    IN  IF ~inside /\ Len(rel) > 0 /\ ubn = "SIGSEGV"
        THEN [err |-> "SIGSEGV", eng |-> Engine, noise_results |-> noise_results_]
        ELSE [err |-> r.err, eng |-> r.eng, noise_results |-> nr]

(***************************************************************************)
(* Actions: the constructor and one action per member function.            *)
(***************************************************************************)
\* QCircuit(nq, nc, d): the exception checks of the constructor
QCircuit_check_mut_no_d(nq, nc, d) ==
    IF nq = 0 THEN "ZeroSize"
    ELSE "ok"

QCircuit_check(nq, nc, d) ==
    IF nq = 0 THEN "ZeroSize"
    ELSE IF d < 2 THEN "OutOfRange"
    ELSE "ok"

\* QCircuit(nq, nc, d): the members are initialised from the arguments, then
\* the checks run; when they throw there is no object, and nothing follows
Init ==
    /\ nq_ \in 0..MaxNq
    /\ nc_ \in 0..MaxNc
    /\ d_ \in 0..MaxD
    /\ measured_ = [i \in 0..(nq_ - 1) |-> FALSE]
    /\ cmat_hash_tbl_ = <<>>
    /\ count_ = <<>>
    /\ measurement_count_ = <<>>
    /\ gates_ = <<>>
    /\ measurements_ = <<>>
    /\ step_types_ = <<>>
    /\ call = CallRec("QCircuit", NoMat, <<>>, <<>>, NoReg, "")
    /\ err = QCircuit_check(nq_, nc_, d_)
    /\ emitted = <<>>
    /\ pc = "build"
    /\ it = iterator
    /\ psi_ = zero(0, d_)
    /\ dits_ = <<>>
    /\ probs_ = <<>>
    /\ subsys_ = <<>>
    /\ op = [f |-> "none", err |-> "ok"]
    /\ executed = <<>>
    /\ arg = NoArg
    /\ noise_results_ = <<>>

\* the call c with outcome r0
Call(c, r0) ==
    \E r \in {r0} :
        /\ call' = c
        /\ err' = r.err
        /\ measured_' = r.qc.measured
        /\ cmat_hash_tbl_' = r.qc.tbl
        /\ count_' = r.qc.count
        /\ measurement_count_' = r.qc.mcount
        /\ gates_' = r.qc.gates
        /\ measurements_' = r.qc.measurements
        /\ step_types_' = r.qc.step_types
        /\ emitted' = IF r.emit = NoStep THEN emitted ELSE Append(emitted, r.emit)
        /\ UNCHANGED <<nq_, nc_, d_>>
        /\ UNCHANGED <<pc, it, psi_, dits_, probs_, subsys_, op, executed>>
        /\ UNCHANGED <<arg, noise_results_>>

Do_gate ==
    \E U \in Mats, i \in Idx, n \in Names :
        Call(CallRec("gate", U, <<>>, <<i>>, NoReg, n), gate(U, i, n))

Do_gate2 ==
    \E U \in Mats, i \in Idx, j \in Idx, n \in Names :
        Call(CallRec("gate2", U, <<>>, <<i, j>>, NoReg, n), gate2(U, i, j, n))

Do_gate3 ==
    \E U \in Mats, i \in Idx, j \in Idx, k \in Idx, n \in Names :
        Call(CallRec("gate3", U, <<>>, <<i, j, k>>, NoReg, n),
             gate3(U, i, j, k, n))

Do_gate_fan ==
    \E U \in Mats, t \in Lists(Idx), n \in Names :
        Call(CallRec("gate_fan", U, <<>>, t, NoReg, n), gate_fan(U, t, n))

Do_gate_fan_all ==
    \E U \in Mats, n \in Names :
        Call(CallRec("gate_fan_all", U, <<>>, <<>>, NoReg, n), gate_fan_all(U, n))

Do_gate_custom ==
    \E U \in Mats, t \in Lists(Idx), n \in Names :
        Call(CallRec("gate_custom", U, <<>>, t, NoReg, n), gate_custom(U, t, n))

Do_QFT ==
    \E t \in Lists(Idx) : Call(CallRec("QFT", NoMat, <<>>, t, NoReg, ""), QFT(t))

Do_TFQ ==
    \E t \in Lists(Idx) : Call(CallRec("TFQ", NoMat, <<>>, t, NoReg, ""), TFQ(t))

Do_CTRL ==
    \E U \in Mats, c \in Idx, t \in Idx, n \in Names :
        Call(CallRec("CTRL", U, <<c>>, <<t>>, NoReg, n), CTRL(U, c, t, n))

Do_CTRL_1m ==
    \E U \in Mats, c \in Idx, t \in Lists(Idx), n \in Names :
        Call(CallRec("CTRL_1m", U, <<c>>, t, NoReg, n), CTRL_1m(U, c, t, n))

Do_CTRL_m1 ==
    \E U \in Mats, c \in Lists(Idx), t \in Idx, n \in Names :
        Call(CallRec("CTRL_m1", U, c, <<t>>, NoReg, n), CTRL_m1(U, c, t, n))

Do_CTRL_mm ==
    \E U \in Mats, c \in Lists(Idx), t \in Lists(Idx), n \in Names :
        Call(CallRec("CTRL_mm", U, c, t, NoReg, n), CTRL_mm(U, c, t, n))

Do_CTRL_custom ==
    \E U \in Mats, c \in Lists(Idx), t \in Lists(Idx), n \in Names :
        Call(CallRec("CTRL_custom", U, c, t, NoReg, n), CTRL_custom(U, c, t, n))

Do_cCTRL ==
    \E U \in Mats, c \in Dit, t \in Idx, n \in Names :
        Call(CallRec("cCTRL", U, <<c>>, <<t>>, NoReg, n), cCTRL(U, c, t, n))

Do_cCTRL_1m ==
    \E U \in Mats, c \in Dit, t \in Lists(Idx), n \in Names :
        Call(CallRec("cCTRL_1m", U, <<c>>, t, NoReg, n), cCTRL_1m(U, c, t, n))

Do_cCTRL_m1 ==
    \E U \in Mats, c \in Lists(Dit), t \in Idx, n \in Names :
        Call(CallRec("cCTRL_m1", U, c, <<t>>, NoReg, n), cCTRL_m1(U, c, t, n))

Do_cCTRL_mm ==
    \E U \in Mats, c \in Lists(Dit), t \in Lists(Idx), n \in Names :
        Call(CallRec("cCTRL_mm", U, c, t, NoReg, n), cCTRL_mm(U, c, t, n))

Do_cCTRL_custom ==
    \E U \in Mats, c \in Lists(Dit), t \in Lists(Idx), n \in Names :
        Call(CallRec("cCTRL_custom", U, c, t, NoReg, n), cCTRL_custom(U, c, t, n))

Do_measureZ ==
    \E t \in Idx, r \in Dit, n \in Names :
        Call(CallRec("measureZ", NoMat, <<>>, <<t>>, r, n), measureZ(t, r, n))

Do_measureV ==
    \E V \in Mats, t \in Idx, r \in Dit, n \in Names :
        Call(CallRec("measureV", V, <<>>, <<t>>, r, n), measureV(V, t, r, n))

Do_measureV_many ==
    \E V \in Mats, t \in Lists(Idx), r \in Dit, n \in Names :
        Call(CallRec("measureV_many", V, <<>>, t, r, n), measureV_many(V, t, r, n))

\* a call is made while the chain goes on: no engine is bound to the circuit
\* yet, no call has thrown, and the chain is at most MaxSteps calls long
Building ==
    /\ pc = "build"
    /\ err = "ok"
    /\ get_step_count < MaxSteps

Next ==
    \/ Building /\ Do_gate
    \/ Building /\ Do_gate2
    \/ Building /\ Do_gate3
    \/ Building /\ Do_gate_fan
    \/ Building /\ Do_gate_fan_all
    \/ Building /\ Do_gate_custom
    \/ Building /\ Do_QFT
    \/ Building /\ Do_TFQ
    \/ Building /\ Do_CTRL
    \/ Building /\ Do_CTRL_1m
    \/ Building /\ Do_CTRL_m1
    \/ Building /\ Do_CTRL_mm
    \/ Building /\ Do_CTRL_custom
    \/ Building /\ Do_cCTRL
    \/ Building /\ Do_cCTRL_1m
    \/ Building /\ Do_cCTRL_m1
    \/ Building /\ Do_cCTRL_mm
    \/ Building /\ Do_cCTRL_custom
    \/ Building /\ Do_measureZ
    \/ Building /\ Do_measureV
    \/ Building /\ Do_measureV_many

Spec == Init /\ [][Next]_vars

(***************************************************************************)
(* An engine on the circuit.  Once an engine is bound to the circuit the   *)
(* circuit is built no further; the engine is driven through one iterator. *)
(***************************************************************************)
\* an iterator or engine operation f that threw e and left the iterator i and
\* the engine eng; ran is the timeline position of the step it ran, if any
Run(f, e, i, eng, ran) ==
    /\ op' = [f |-> f, err |-> e]
    /\ it' = i
    /\ psi_' = eng.psi
    /\ dits_' = eng.dits
    /\ probs_' = eng.probs
    /\ subsys_' = eng.subsys
    /\ executed' = executed \o ran
    /\ pc' = "run"
    /\ UNCHANGED circuit
    /\ UNCHANGED <<arg, noise_results_>>

\* QEngine engine{qc}
Do_QEngine ==
    /\ pc = "build"
    /\ err = "ok"
    /\ Run("QEngine", "ok", it, QEngine, <<>>)

\* QCircuit::iterator it;
Do_iterator ==
    /\ pc = "run"
    /\ Run("iterator", "ok", iterator, Engine, <<>>)

\* it = qc.begin()
Do_begin ==
    /\ pc = "run"
    /\ Run("begin", "ok", begin, Engine, <<>>)

\* it = qc.end()
Do_end ==
    /\ pc = "run"
    /\ Run("end", "ok", end, Engine, <<>>)

\* ++it
Do_increment ==
    /\ pc = "run"
    /\ Run("operator++", increment(it).err, increment(it).it, Engine, <<>>)

\* *it
Do_dereference ==
    /\ pc = "run"
    /\ Run("operator*", dereference(it).err, it, Engine, <<>>)

\* engine.execute(it)
Do_execute ==
    /\ pc = "run"
    /\ Len(executed) < MaxExec
    /\ \E m \in Outcomes(it.elem_), ub \in Garbage(it.elem_) :
          \E r \in {execute_it(it, m, ub)} :
              Run("execute", r.err, it, r.eng,
                  IF r.err = "ok" /\ it.elem_.type_ # "NONE"
                  THEN <<it.elem_.ip_>> ELSE <<>>)

\* a builder call that returns, with the default name
Build ==
    /\ Next
    /\ err' = "ok"
    /\ call'.name = ""

NextRun ==
    \/ Build
    \/ Do_QEngine
    \/ Do_iterator
    \/ Do_begin
    \/ Do_end
    \/ Do_increment
    \/ Do_dereference
    \/ Do_execute

SpecRun == Init /\ [][NextRun]_vars

\* an iterator or engine call with arguments a that leaves the engine as
\* eng, the noise results as nr and the matrix cache of the circuit as tbl
RunEng(f, e, i, eng, ran, a, nr, tbl) ==
    /\ op' = [f |-> f, err |-> e]
    /\ it' = i
    /\ psi_' = eng.psi
    /\ dits_' = eng.dits
    /\ probs_' = eng.probs
    /\ subsys_' = eng.subsys
    /\ executed' = ran
    /\ arg' = a
    /\ noise_results_' = nr
    /\ cmat_hash_tbl_' = tbl
    /\ pc' = "run"
    /\ UNCHANGED <<nq_, nc_, d_, measured_, count_, measurement_count_, gates_,
                   measurements_, step_types_, call, err, emitted>>

\* engine.get_dit(i) with i one of Is
Do_get_dit(Is) ==
    /\ pc = "run"
    /\ \E i \in Is :
          \E ub \in (IF i = nc_ THEN OutsideReads ELSE {[err |-> "ok", result |-> 0]}) :
              RunEng("get_dit", get_dit(i, ub).err, it, Engine, executed,
                     [NoArg EXCEPT !.i = i], noise_results_, cmat_hash_tbl_)

\* engine.set_dit(i, value) with i one of Is and value one of Vs
Do_set_dit(Is, Vs) ==
    /\ pc = "run"
    /\ \E i \in Is, value \in Vs :
          \E ub \in (IF i = nc_ THEN OutsideWrites ELSE {"ok"}) :
              RunEng("set_dit", set_dit(i, value, ub).err, it,
                     set_dit(i, value, ub).eng, executed,
                     [NoArg EXCEPT !.i = i, !.value = value], noise_results_,
                     cmat_hash_tbl_)

\* engine.reset(): the engine is fresh again
Do_reset ==
    /\ pc = "run"
    /\ RunEng("reset", "ok", it, reset, <<>>, NoArg, noise_results_,
              cmat_hash_tbl_)

\* engine.execute(elem) with elem the step descriptor of an iterator over
\* this circuit or over another circuit
Do_execute_elem ==
    /\ pc = "run"
    /\ Len(executed) < MaxExec
    /\ \/ \E elem \in StepElems :
             \E m \in Outcomes(elem), ub \in Garbage(elem) :
                \E r \in {execute(elem, m, ub)} :
                    RunEng("execute", r.err, it, r.eng,
                           IF r.err = "ok" /\ elem.type_ # "NONE"
                           THEN Append(executed, elem.ip_) ELSE executed,
                           [NoArg EXCEPT !.i = elem.ip_], noise_results_,
                           execute_tbl(elem))
       \/ \E elem \in OtherElems :
             \E r \in {execute(elem, 0, 0)} :
                 RunEng("execute", r.err, it, r.eng, executed,
                        [NoArg EXCEPT !.i = elem.ip_, !.qc = "other"],
                        noise_results_, execute_tbl(elem))

\* the process has not faulted
Alive == op.err # "SIGSEGV"

\* the builder calls whose steps the engine is run on
EngCalls ==
    {"gate", "gate2", "cCTRL", "cCTRL_m1", "measureZ", "measureV", "measureV_many"}

\* a builder call of EngCalls that returns, with the default name
BuildEng ==
    /\ Build
    /\ call'.f \in EngCalls

\* QCircuit(nq, nc, d) returned
InitEng ==
    /\ nq_ \in 1..MaxNq
    /\ nc_ \in 0..MaxNcEng
    /\ d_ \in 2..MaxD
    /\ measured_ = [i \in 0..(nq_ - 1) |-> FALSE]
    /\ cmat_hash_tbl_ = <<>>
    /\ count_ = <<>>
    /\ measurement_count_ = <<>>
    /\ gates_ = <<>>
    /\ measurements_ = <<>>
    /\ step_types_ = <<>>
    /\ call = CallRec("QCircuit", NoMat, <<>>, <<>>, NoReg, "")
    /\ err = QCircuit_check(nq_, nc_, d_)
    /\ emitted = <<>>
    /\ pc = "build"
    /\ it = iterator
    /\ psi_ = zero(0, d_)
    /\ dits_ = <<>>
    /\ probs_ = <<>>
    /\ subsys_ = <<>>
    /\ op = [f |-> "none", err |-> "ok"]
    /\ executed = <<>>
    /\ arg = NoArg
    /\ noise_results_ = <<>>

\* an engine on a circuit with up to MaxNcEng dits, whose dits are set to
\* values in range
NextEng ==
    \/ BuildEng
    \/ Alive /\ Do_QEngine
    \/ Alive /\ Do_execute_elem
    \/ Alive /\ Do_set_dit(0..(nc_ - 1), 0..(d_ - 1))
    \/ Alive /\ Do_reset

SpecEng == InitEng /\ [][NextEng]_vars

\* an engine whose dits are read and set with any index and any value
NextDit ==
    \/ BuildEng
    \/ Alive /\ Do_QEngine
    \/ Alive /\ Do_execute_elem
    \/ Alive /\ Do_get_dit(0..(nc_ + 1))
    \/ Alive /\ Do_set_dit(0..(nc_ + 1), 0..d_)
    \/ Alive /\ Do_reset

SpecDit == Init /\ [][NextDit]_vars

\* QCircuit qc{2, 2, 2}
InitBell ==
    /\ nq_ = 2
    /\ nc_ = 2
    /\ d_ = 2
    /\ measured_ = [i \in 0..(nq_ - 1) |-> FALSE]
    /\ cmat_hash_tbl_ = <<>>
    /\ count_ = <<>>
    /\ measurement_count_ = <<>>
    /\ gates_ = <<>>
    /\ measurements_ = <<>>
    /\ step_types_ = <<>>
    /\ call = CallRec("QCircuit", NoMat, <<>>, <<>>, NoReg, "")
    /\ err = QCircuit_check(nq_, nc_, d_)
    /\ emitted = <<>>
    /\ pc = "build"
    /\ it = iterator
    /\ psi_ = zero(0, d_)
    /\ dits_ = <<>>
    /\ probs_ = <<>>
    /\ subsys_ = <<>>
    /\ op = [f |-> "none", err |-> "ok"]
    /\ executed = <<>>
    /\ arg = NoArg
    /\ noise_results_ = <<>>

\* qc.gate(U, i), qc.CTRL(gt.X, c, t) and qc.measureZ(t, r) with U one of
\* gt.H and gt.X, calls that return
BuildBell ==
    /\ pc = "build"
    /\ err = "ok"
    /\ get_step_count < MaxBell
    /\ \/ \E U \in {Hadamard, PauliX}, i \in Idx :
             Call(CallRec("gate", U, <<>>, <<i>>, NoReg, ""), gate(U, i, ""))
       \/ \E c \in Idx, t \in Idx :
             Call(CallRec("CTRL", PauliX, <<c>>, <<t>>, NoReg, ""),
                  CTRL(PauliX, c, t, ""))
       \/ \E t \in Idx, r \in Dit :
             Call(CallRec("measureZ", NoMat, <<>>, <<t>>, r, ""),
                  measureZ(t, r, ""))
    /\ err' = "ok"

\* engine.execute(elem) with elem the step after the steps executed, when
\* measure_seq samples an outcome of positive probability
Do_execute_sampled ==
    /\ pc = "run"
    /\ Len(executed) < get_step_count
    /\ \E elem \in {dereference(advance(Len(executed)).it).elem} :
          \E m \in Outcomes(elem), ub \in Garbage(elem) :
             \E r \in {execute(elem, m, ub)} :
                /\ Possible(nq_, r.eng.psi.ops, Len(r.eng.psi.ops))
                /\ RunEng("execute", r.err, it, r.eng,
                          IF r.err = "ok" THEN Append(executed, elem.ip_)
                          ELSE executed,
                          [NoArg EXCEPT !.i = elem.ip_], noise_results_,
                          execute_tbl(elem))

\* a circuit of qubits is built from gt.H, gt.X, CTRL and measureZ, then an
\* engine executes its steps in timeline order
NextBell ==
    \/ BuildBell
    \/ Do_QEngine
    \/ Do_execute_sampled

SpecBell == InitBell /\ [][NextBell]_vars

\* QNoisyEngine engine{qc, noise} with a noise of the dimension of the
\* circuit or of another dimension; when it throws there is no engine
Do_QNoisyEngine ==
    /\ pc = "build"
    /\ err = "ok"
    /\ \E noise_d \in {d_, d_ + 1} :
          \E r \in {QNoisyEngine(noise_d)} :
             IF r.err = "ok"
             THEN RunEng("QNoisyEngine", "ok", it, r.eng, <<>>, NoArg,
                         r.noise_results, cmat_hash_tbl_)
             ELSE /\ op' = [f |-> "QNoisyEngine", err |-> r.err]
                  /\ UNCHANGED <<circuit, engine, it, executed, arg,
                                 noise_results_, pc>>

\* engine.execute(elem) on a QNoisyEngine, elem the step descriptor of an
\* iterator over this circuit or over another circuit; a call that is not
\* the execution of a step (it throws, or elem is no step) is recorded in
\* executed as idx_max
Do_noisy_execute ==
    /\ pc = "run"
    /\ Len(executed) < MaxExec
    /\ \E elem \in StepElems \cup OtherElems :
          \E bs \in Branches(engine_get_non_measured),
             m \in (IF elem.value_type_qc_ = "this" THEN Outcomes(elem) ELSE {0}),
             ub \in (IF elem.value_type_qc_ = "this" THEN Garbage(elem) ELSE {0}),
             ubn \in (IF elem.ip_ \in DOMAIN noise_results_ THEN {"ok"}
                      ELSE OutsideRecords) :
             \E r \in {noisy_execute(elem, bs, m, ub, ubn)} :
                RunEng("execute", r.err, it, r.eng,
                       Append(executed,
                              IF r.err = "ok" /\ elem.type_ # "NONE"
                              THEN elem.ip_ ELSE idx_max),
                       [NoArg EXCEPT !.i = elem.ip_,
                                     !.qc = elem.value_type_qc_],
                       r.noise_results, execute_tbl(elem))

\* a circuit is built, then a noisy engine on it executes steps
NextNoisy ==
    \/ BuildEng
    \/ Do_QNoisyEngine
    \/ Alive /\ Do_noisy_execute

SpecNoisy == Init /\ [][NextNoisy]_vars

\* the engine is a QNoisyEngine: noise_results_ has an entry for every step
Noisy == DOMAIN noise_results_ # {}

\* engine.execute(elem) on a QEngine, elem the step after the steps executed
Do_execute_next ==
    /\ pc = "run"
    /\ ~Noisy
    /\ Len(executed) < get_step_count
    /\ \E elem \in {dereference(advance(Len(executed)).it).elem} :
          \E m \in Outcomes(elem), ub \in Garbage(elem) :
             \E r \in {execute(elem, m, ub)} :
                RunEng("execute", r.err, it, r.eng,
                       IF r.err = "ok" THEN Append(executed, elem.ip_)
                       ELSE executed,
                       [NoArg EXCEPT !.i = elem.ip_], noise_results_,
                       execute_tbl(elem))

\* engine.execute(elem) on a QNoisyEngine, elem the step after the steps
\* executed, when the Kraus operator that occurs is the first one
Do_noisy_execute_next ==
    /\ pc = "run"
    /\ Noisy
    /\ Len(executed) < get_step_count
    /\ \E elem \in {dereference(advance(Len(executed)).it).elem} :
          /\ Len(noise_results_[elem.ip_]) < MaxRuns * nq_
          /\ \E bs \in {[k \in 1..Len(engine_get_non_measured) |-> 0]},
                m \in Outcomes(elem), ub \in Garbage(elem) :
                \E r \in {noisy_execute(elem, bs, m, ub, "ok")} :
                   RunEng("execute", r.err, it, r.eng,
                          IF r.err = "ok" THEN Append(executed, elem.ip_)
                          ELSE executed,
                          [NoArg EXCEPT !.i = elem.ip_], r.noise_results,
                          execute_tbl(elem))

\* a circuit is built, then a QEngine or a QNoisyEngine executes its steps
\* in timeline order, and again after reset()
NextOrder ==
    \/ Build
    \/ Do_QEngine
    \/ Do_QNoisyEngine
    \/ Alive /\ Do_execute_next
    \/ Alive /\ Do_noisy_execute_next
    \/ Alive /\ Do_reset

SpecOrder == Init /\ [][NextOrder]_vars

(***************************************************************************)
(* What a call names, and what the stored steps hold.                      *)
(***************************************************************************)
QuantumCtrlCalls == {"CTRL", "CTRL_1m", "CTRL_m1", "CTRL_mm", "CTRL_custom"}

ClassicalCtrlCalls == {"cCTRL", "cCTRL_1m", "cCTRL_m1", "cCTRL_mm", "cCTRL_custom"}

MeasureCalls == {"measureZ", "measureV", "measureV_many"}

\* the qudits a call names as target, quantum control or measurement target
NamedQudits(c) ==
    Range(c.target) \cup (IF c.f \in QuantumCtrlCalls THEN Range(c.ctrl) ELSE {})

\* the qudits a stored gate step refers to
StepQudits(g) ==
    Range(g.target_) \cup
        (IF g.gate_type_ \in QuantumCtrlTypes THEN Range(g.ctrl_) ELSE {})

Distinct(v) == \A j, k \in 1..Len(v) : j # k => v[j] # v[k]

IsPrefix(v, w) == Len(v) <= Len(w) /\ \A k \in 1..Len(v) : v[k] = w[k]

StepsUnchanged ==
    /\ gates_' = gates_
    /\ measurements_' = measurements_
    /\ step_types_' = step_types_

CountersUnchanged ==
    /\ count_' = count_
    /\ measurement_count_' = measurement_count_

\* number of entries of step_types_[1..n] that carry the tag
Rank(tag, n) == Cardinality({k \in 1..n : step_types_[k] = tag})

\* the step the i-th timeline entry stands for
StepAt(i) ==
    IF step_types_[i] = "GATE" THEN gates_[Rank("GATE", i)]
    ELSE measurements_[Rank("MEASUREMENT", i)]

(***************************************************************************)
(* C1  Monotone measurement.                                               *)
(***************************************************************************)
\* C1: a measured_ flag that is true stays true over every builder call, and a
\* call that names a measured qudit as target, quantum control or measurement
\* target throws and leaves the three step containers as they were.
C1_MonotoneMeasurement ==
    [][/\ \A i \in DOMAIN measured_ : measured_[i] => measured_'[i]
       /\ (\E i \in NamedQudits(call') : i < nq_ /\ measured_[i])
            => err' # "ok" /\ StepsUnchanged]_vars

\* a CTRL_custom call named a measured qudit as a control and threw
C1_Witness ==
    /\ call.f = "CTRL_custom"
    /\ err = "QuditAlreadyMeasured"
    /\ \E i \in Range(call.ctrl) : i < nq_ /\ measured_[i]
    /\ Len(measurements_) = 1

(***************************************************************************)
(* C2  Arity enforcement.                                                  *)
(***************************************************************************)
\* the matrix a stored gate step refers to
StepMat(g) == cmat_hash_tbl_[g.gate_hash_]

\* C2: every stored gate step with k targets has a matrix of d^k rows, except
\* a FAN step, whose matrix has d rows.
C2_Original ==
    \A k \in 1..Len(gates_) :
        LET g == gates_[k]
        IN  IF g.gate_type_ = "FAN" THEN StepMat(g).rows = d_
            ELSE StepMat(g).rows = d_ ^ Len(g.target_)

(***************************************************************************)
(* C3  Distinctness.                                                       *)
(***************************************************************************)
\* C3: in every stored step the targets are pairwise distinct, the controls
\* (qudits or dits) are pairwise distinct, and quantum controls and targets
\* are disjoint.
C3_Original ==
    /\ \A k \in 1..Len(gates_) :
          LET g == gates_[k]
          IN  /\ Distinct(g.target_)
              /\ Distinct(g.ctrl_)
              /\ g.gate_type_ \in QuantumCtrlTypes
                    => Range(g.ctrl_) \cap Range(g.target_) = {}
    /\ \A k \in 1..Len(measurements_) : Distinct(measurements_[k].target_)

(***************************************************************************)
(* C4  Cache completeness.                                                 *)
(***************************************************************************)
\* C4: every digest recorded in a stored step, gate_hash_ of a gate step and
\* every entry of mats_hash_ of a measurement step, is a key of the hash table.
C4_Original ==
    /\ \A k \in 1..Len(gates_) : gates_[k].gate_hash_ \in DOMAIN cmat_hash_tbl_
    /\ \A k \in 1..Len(measurements_) :
          \A j \in 1..Len(measurements_[k].mats_hash_) :
              measurements_[k].mats_hash_[j] \in DOMAIN cmat_hash_tbl_

(***************************************************************************)
(* C5  Hash collision.                                                     *)
(***************************************************************************)
\* the call's matrix has a digest that is a key of the table
DigestKnown(c) == c.U # NoMat /\ hash_eigen(c.U) \in DOMAIN cmat_hash_tbl_

\* C5: a call whose matrix has the digest of a different stored matrix throws
\* and leaves the table, the step containers and the counters as they were; a
\* call whose matrix equals the stored one leaves the table as it was.
C5_Original ==
    [][DigestKnown(call') =>
          IF equal_eigen(cmat_hash_tbl_[hash_eigen(call'.U)], call'.U)
          THEN cmat_hash_tbl_' = cmat_hash_tbl_
          ELSE /\ err' # "ok"
               /\ cmat_hash_tbl_' = cmat_hash_tbl_
               /\ StepsUnchanged
               /\ CountersUnchanged]_vars

(***************************************************************************)
(* C6  Timeline correspondence.                                            *)
(***************************************************************************)
\* C6: step_types_ holds as many GATE tags as gates_ has entries and as many
\* MEASUREMENT tags as measurements_ has entries, and no other tag; the step
\* count is the sum of the two lengths; and the i-th timeline entry is the
\* i-th step the builder emitted, found in its container at the rank of its tag.
C6_TimelineCorrespondence ==
    /\ Rank("GATE", Len(step_types_)) = Len(gates_)
    /\ Rank("MEASUREMENT", Len(step_types_)) = Len(measurements_)
    /\ \A i \in 1..Len(step_types_) : step_types_[i] \in {"GATE", "MEASUREMENT"}
    /\ get_step_count = Len(gates_) + Len(measurements_)
    /\ Len(emitted) = get_step_count
    /\ \A i \in 1..Len(step_types_) :
          /\ emitted[i].kind = step_types_[i]
          /\ StepAt(i) = emitted[i]

\* a gate after a measurement: the second timeline entry is the first gate
C6_Witness ==
    /\ step_types_ = <<"MEASUREMENT", "GATE">>
    /\ StepAt(2) = gates_[1]
    /\ StepAt(1) = measurements_[1]

(***************************************************************************)
(* C7  Append-only step store.                                             *)
(***************************************************************************)
\* C7: every call leaves the stored steps and their order as they were, and a
\* call that returns appends one entry to step_types_ and one entry to exactly
\* one of gates_ and measurements_.
C7_AppendOnly ==
    [][/\ IsPrefix(gates_, gates_')
       /\ IsPrefix(measurements_, measurements_')
       /\ IsPrefix(step_types_, step_types_')
       /\ err' = "ok" =>
            /\ Len(step_types_') = Len(step_types_) + 1
            /\ Len(gates_') + Len(measurements_')
                  = Len(gates_) + Len(measurements_) + 1]_vars

\* a second measurement was appended after a first one
C7_Witness ==
    /\ Len(measurements_) = 2
    /\ call.f \in MeasureCalls
    /\ err = "ok"

(***************************************************************************)
(* C8  Count accounting.                                                   *)
(***************************************************************************)
\* sum of get_gate_count(name) over the names that have a count
RECURSIVE SumNames(_)
SumNames(D) ==
    IF D = {} THEN 0
    ELSE LET n == CHOOSE n \in D : TRUE
         IN  get_gate_count_name(n).result + SumNames(D \ {n})

\* what the first n gate steps count for: |target| for a FAN step, 1 otherwise
RECURSIVE StepsWeight(_)
StepsWeight(n) ==
    IF n = 0 THEN 0
    ELSE StepsWeight(n - 1) +
            (IF gates_[n].gate_type_ = "FAN" THEN Len(gates_[n].target_) ELSE 1)

\* C8: get_gate_count() is the sum over names of get_gate_count(name) and is
\* the number of non-FAN gate steps plus the sum of |target| over FAN steps;
\* without a FAN step it is the number of gate steps; get_measurement_count()
\* is the number of MEASUREMENT steps.
C8_CountAccounting ==
    /\ get_gate_count = SumNames(DOMAIN count_)
    /\ get_gate_count = StepsWeight(Len(gates_))
    /\ (\A k \in 1..Len(gates_) : gates_[k].gate_type_ # "FAN")
          => get_gate_count = Rank("GATE", Len(step_types_))
    /\ get_measurement_count = Rank("MEASUREMENT", Len(step_types_))

\* a FAN step over two qudits next to a gate of another type
C8_Witness ==
    /\ Len(gates_) = 2
    /\ \E k \in 1..2 : gates_[k].gate_type_ = "FAN" /\ Len(gates_[k].target_) = 2
    /\ \E k \in 1..2 : gates_[k].gate_type_ # "FAN"
    /\ get_gate_count = 3

(***************************************************************************)
(* C9  Non-empty index lists.                                              *)
(***************************************************************************)
\* the member functions that take a target list, and those that take a list of
\* control qudits or of control dits
TargetListCalls ==
    {"gate_fan", "gate_custom", "CTRL_1m", "CTRL_mm", "CTRL_custom", "cCTRL_1m",
     "cCTRL_mm", "cCTRL_custom", "measureV_many"}

CtrlListCalls ==
    {"CTRL_m1", "CTRL_mm", "CTRL_custom", "cCTRL_m1", "cCTRL_mm", "cCTRL_custom"}

\* the call passes an empty index list
EmptyList(c) ==
    \/ c.f \in TargetListCalls /\ Len(c.target) = 0
    \/ c.f \in CtrlListCalls /\ Len(c.ctrl) = 0

\* C9: a call that passes an empty index list throws and appends no step, and
\* no stored controlled step has an empty ctrl_.
C9_Original ==
    [][/\ EmptyList(call') => err' # "ok" /\ StepsUnchanged
       /\ \A k \in 1..Len(gates_') :
             gates_'[k].gate_type_ \in QuantumCtrlTypes \cup ClassicalCtrlTypes
                => Len(gates_'[k].ctrl_) > 0]_vars

(***************************************************************************)
(* C10  Index ranges.                                                      *)
(***************************************************************************)
\* every index of a stored step is in range
StoredInRange ==
    /\ \A k \in 1..Len(gates_) :
          LET g == gates_[k]
          IN  /\ \A i \in Range(g.target_) : i < nq_
              /\ g.gate_type_ \in QuantumCtrlTypes => \A i \in Range(g.ctrl_) : i < nq_
              /\ g.gate_type_ \in ClassicalCtrlTypes => \A i \in Range(g.ctrl_) : i < nc_
    /\ \A k \in 1..Len(measurements_) :
          /\ \A i \in Range(measurements_[k].target_) : i < nq_
          /\ measurements_[k].c_reg_ < nc_

\* the call passes a qudit index >= nq_, a control dit index >= nc_ or a
\* c_reg >= nc_ (QFT and TFQ are not implemented and are left out)
IndexOutOfRange(c) ==
    /\ c.f \notin {"QFT", "TFQ"}
    /\ \/ \E i \in Range(c.target) : i >= nq_
       \/ c.f \in QuantumCtrlCalls /\ \E i \in Range(c.ctrl) : i >= nq_
       \/ c.f \in ClassicalCtrlCalls /\ \E i \in Range(c.ctrl) : i >= nc_
       \/ c.f \in MeasureCalls /\ c.c_reg >= nc_

\* the member functions whose indices are all single idx arguments
SingleIndexCalls ==
    {"gate", "gate2", "gate3", "CTRL", "cCTRL", "measureZ", "measureV"}

\* C10 as stated: the stored indices are in range, and a call with an index
\* out of range throws OutOfRange.
C10_Original ==
    [][/\ StoredInRange'
       /\ IndexOutOfRange(call') => err' = "OutOfRange"]_vars

\* C10: every index stored in a step is in range; a call with an index out of
\* range throws and appends no step; it throws OutOfRange when all its indices
\* are single idx arguments, and otherwise OutOfRange or what an earlier check
\* on its lists throws: ZeroSize, QuditAlreadyMeasured or Duplicates.
C10_IndexRange ==
    [][/\ StoredInRange'
       /\ IndexOutOfRange(call') =>
            /\ StepsUnchanged
            /\ err' \in {"OutOfRange", "ZeroSize", "QuditAlreadyMeasured",
                         "Duplicates"}
            /\ call'.f \in SingleIndexCalls => err' = "OutOfRange"]_vars

\* measureV on a target list passed a c_reg out of range and a repeated
\* target, after a classically-controlled gate was stored
C10_Witness ==
    /\ call.f = "measureV_many"
    /\ call.c_reg >= nc_
    /\ err = "Duplicates"
    /\ Len(gates_) = 1
    /\ gates_[1].gate_type_ \in ClassicalCtrlTypes

(***************************************************************************)
(* C11  Disjointness is reported as OutOfRange.                            *)
(***************************************************************************)
\* the call repeats an index among the arguments of gate(U, i, j) or
\* gate(U, i, j, k), or names a qudit both as quantum control and as target
Overlap(c) ==
    \/ c.f \in {"gate2", "gate3"} /\ ~Distinct(c.target)
    \/ c.f \in QuantumCtrlCalls /\ Range(c.ctrl) \cap Range(c.target) # {}

\* every qudit the call names is in range and not measured
NamedLive(c) == \A i \in NamedQudits(c) : i < nq_ /\ ~measured_[i]

\* the matrix of the call is square, of the dimension the call expects
ShapeOk(c) ==
    check_mat(c.U, IF c.f = "gate2" THEN d_ * d_
                   ELSE IF c.f = "gate3" THEN d_ * d_ * d_
                   ELSE IF c.f = "CTRL_custom" THEN d_ ^ Len(c.target)
                   ELSE d_) = "ok"

\* the call repeats an index inside a list that the call checks for duplicates
\* before it compares controls and targets
RepeatsInList(c) ==
    /\ c.f \in QuantumCtrlCalls
    /\ \/ ~Distinct(c.ctrl)
       \/ c.f # "CTRL_custom" /\ ~Distinct(c.target)

\* C11 as stated: with indices in range and not measured and a matrix of the
\* right shape, a call with overlapping indices throws OutOfRange and appends
\* no step.
C11_Original ==
    [][Overlap(call') /\ NamedLive(call') /\ ShapeOk(call')
          => err' = "OutOfRange" /\ StepsUnchanged]_vars

\* C11: with indices in range and not measured, whatever the matrix, a call
\* with overlapping indices throws and appends no step; it throws Duplicates
\* when a list that is checked for duplicates repeats an index, and
\* OutOfRange otherwise.
C11_Disjointness ==
    [][Overlap(call') /\ NamedLive(call')
          => /\ StepsUnchanged
             /\ err' = IF RepeatsInList(call') THEN "Duplicates" ELSE "OutOfRange"]_vars

\* CTRL with a control list that repeats the target threw Duplicates, after a
\* gate was stored
C11_Witness ==
    /\ call.f = "CTRL_mm"
    /\ Overlap(call) /\ NamedLive(call) /\ ShapeOk(call)
    /\ err = "Duplicates"
    /\ Len(gates_) = 1

(***************************************************************************)
(* C12  No measurement without classical dits.                             *)
(***************************************************************************)
\* C12: in a circuit with nc = 0 every measureZ / measureV call fails, no
\* MEASUREMENT step is ever stored and get_measured() stays empty.
C12_NoClassicalDits ==
    /\ [](nc_ = 0 => /\ measurements_ = <<>>
                     /\ "MEASUREMENT" \notin Range(step_types_)
                     /\ get_measurement_count = 0
                     /\ get_measured_all = {})
    /\ [][nc_ = 0 /\ call'.f \in MeasureCalls
             => err' # "ok" /\ StepsUnchanged /\ measured_' = measured_]_vars

\* a well-formed measureV on a live qudit of a circuit without classical dits
\* failed, after a gate was stored
C12_Witness ==
    /\ nc_ = 0
    /\ call.f = "measureV"
    /\ call.target[1] < nq_
    /\ err = "OutOfRange"
    /\ Len(gates_) = 1

(***************************************************************************)
(* C13  Non-square matrices are rejected everywhere.                       *)
(***************************************************************************)
\* the builder calls that take a matrix
MatrixCalls ==
    {"gate", "gate2", "gate3", "gate_fan", "gate_fan_all", "gate_custom",
     "measureV", "measureV_many"}
        \cup QuantumCtrlCalls \cup ClassicalCtrlCalls

\* C13 as stated: every builder call that takes a matrix, both measureV
\* overloads included, fails when the matrix is not square (with
\* MatrixNotSquare when the call gets as far as the matrix), appends no step
\* and marks no qudit measured.
C13_Original ==
    [][call'.f \in MatrixCalls /\ ~check_square_mat(call'.U)
          => /\ err' # "ok"
             /\ StepsUnchanged
             /\ measured_' = measured_]_vars

(***************************************************************************)
(* C14  gate_fan(U) snapshots the non-measured qudits.                     *)
(***************************************************************************)
\* the list is strictly ascending
Ascending(v) == \A j, k \in 1..Len(v) : j < k => v[j] < v[k]

\* the step appended last
Last(v) == v[Len(v)]

\* C14: a successful gate_fan(U) appends one FAN step whose target list is
\* exactly the ascending list of the qudits not measured when it is called,
\* and adds the length of that list to count[name]; no later call changes a
\* stored step, so later measurements leave the list as it was.
C14_FanSnapshot ==
    [][/\ IsPrefix(gates_, gates_')
       /\ call'.f = "gate_fan_all" /\ err' = "ok"
             => /\ Len(gates_') = Len(gates_) + 1
                /\ step_types_' = Append(step_types_, "GATE")
                /\ measurements_' = measurements_
                /\ Last(gates_').gate_type_ = "FAN"
                /\ Ascending(Last(gates_').target_)
                /\ Range(Last(gates_').target_)
                       = {i \in 0..(nq_ - 1) : ~measured_[i]}
                /\ get_gate_count' = get_gate_count + Len(Last(gates_').target_)
                /\ \A n \in DOMAIN count_' :
                       count_'[n] = (IF n \in DOMAIN count_ THEN count_[n] ELSE 0)
                                    + (IF n = Last(gates_').name_
                                       THEN Len(Last(gates_').target_) ELSE 0)]_vars

\* gate_fan(U) called on two qudits after qudit 1 was measured: the stored
\* target list names qudit 0 alone
C14_Witness ==
    /\ nq_ = 2
    /\ step_types_ = <<"MEASUREMENT", "GATE">>
    /\ call.f = "gate_fan_all" /\ err = "ok"
    /\ gates_[1].target_ = <<0>>
    /\ measured_[1] /\ ~measured_[0]

(***************************************************************************)
(* C16  Unimplemented operations.                                          *)
(***************************************************************************)
\* C16: QFT and TFQ always fail with NotImplemented and leave the circuit as
\* it was, no stored step has the type QFT, TFQ or NONE, and both
\* get_gate_depth queries fail with NotImplemented in every state.
C16_NotImplemented ==
    /\ [](/\ \A k \in 1..Len(gates_) :
                gates_[k].gate_type_ \notin {"QFT", "TFQ", "NONE"}
          /\ \A k \in 1..Len(measurements_) :
                measurements_[k].measurement_type_ # "NONE"
          /\ get_gate_depth.err = "NotImplemented"
          /\ \A n \in Names : get_gate_depth_name(n).err = "NotImplemented")
    /\ [][call'.f \in {"QFT", "TFQ"}
             => /\ err' = "NotImplemented"
                /\ StepsUnchanged /\ CountersUnchanged
                /\ measured_' = measured_
                /\ cmat_hash_tbl_' = cmat_hash_tbl_]_vars

\* QFT on a non-empty list of live qudits failed, after a gate was stored
C16_Witness ==
    /\ call.f = "QFT"
    /\ call.target # <<>>
    /\ \A i \in Range(call.target) : i < nq_ /\ ~measured_[i]
    /\ err = "NotImplemented"
    /\ Len(gates_) = 1

(***************************************************************************)
(* C17  Construction.                                                      *)
(***************************************************************************)
\* what holds of a circuit right after a successful construction, and of
\* nq, nc, d ever after
Constructed ==
    /\ [](call.f = "QCircuit" /\ err = "ok"
             => /\ nq_ >= 1 /\ d_ >= 2
                /\ get_step_count = 0
                /\ get_measured_all = {}
                /\ get_non_measured = [k \in 1..nq_ |-> k - 1])
    /\ [](err = "ok" => nq_ >= 1 /\ d_ >= 2)
    /\ [][nq_' = nq_ /\ nc_' = nc_ /\ d_' = d_]_vars

\* C17 as stated: QCircuit(nq, nc, d) fails with ZeroSize when nq = 0 and
\* with OutOfRange when d < 2; a constructed circuit has no step and no
\* measured qudit, and nq, nc, d never change.
C17_Original ==
    /\ [](call.f = "QCircuit"
             => /\ nq_ = 0 => err = "ZeroSize"
                /\ d_ < 2 => err = "OutOfRange")
    /\ Constructed

\* C17: QCircuit(nq, nc, d) fails with ZeroSize when nq = 0 and with
\* OutOfRange when nq >= 1 and d < 2, and succeeds otherwise; a constructed
\* circuit has no step and no measured qudit, and nq, nc, d never change.
C17_Construction ==
    /\ [](call.f = "QCircuit"
             => /\ nq_ = 0 => err = "ZeroSize"
                /\ nq_ >= 1 /\ d_ < 2 => err = "OutOfRange"
                /\ nq_ >= 1 /\ d_ >= 2 => err = "ok")
    /\ Constructed

\* QCircuit(2, nc, 1) failed with OutOfRange
C17_Witness ==
    /\ call.f = "QCircuit"
    /\ nq_ = 2 /\ d_ = 1
    /\ err = "OutOfRange"

(***************************************************************************)
(* C15  gate_fan(U) on a circuit whose qudits are all measured.            *)
(***************************************************************************)
\* the iterator stands at a FAN step whose target list is empty
EmptyFanAt(i) ==
    /\ i.qc_ = "this"
    /\ i.elem_.type_ = "GATE"
    /\ gates_[i.elem_.gates_ip_ + 1].gate_type_ = "FAN"
    /\ gates_[i.elem_.gates_ip_ + 1].target_ = <<>>

\* C15: when every qudit is measured, gate_fan(U) with a d x d matrix
\* succeeds and appends a FAN step with an empty target list, the step count
\* grows by one and the total gate count by zero; executing that step raises
\* no error and leaves psi, dits, probs and subsys as they are.
C15_EmptyFan ==
    /\ [](pc = "build" /\ err = "ok" /\ get_non_measured = <<>>
             => \A U \in Mats : check_mat(U, d_) = "ok"
                   => /\ gate_fan_all(U, "").err = "ok"
                      /\ gate_fan_all(U, "").emit.gate_type_ = "FAN"
                      /\ gate_fan_all(U, "").emit.target_ = <<>>)
    /\ [][pc' = "build" /\ call'.f = "gate_fan_all" /\ get_non_measured = <<>>
             => /\ err' = "ok"
                /\ Len(gates_') = Len(gates_) + 1
                /\ Last(gates_').gate_type_ = "FAN"
                /\ Last(gates_').target_ = <<>>
                /\ get_step_count' = get_step_count + 1
                /\ get_gate_count' = get_gate_count]_vars
    /\ [][pc = "run" /\ op'.f = "execute" /\ EmptyFanAt(it)
             => op'.err = "ok" /\ UNCHANGED engine]_vars

\* the one qudit of a circuit was measured and gate_fan(U) called; the engine
\* executed the measurement and then the FAN step
C15_Witness ==
    /\ nq_ = 1
    /\ step_types_ = <<"MEASUREMENT", "GATE">>
    /\ EmptyFanAt(it)
    /\ op = [f |-> "execute", err |-> "ok"]
    /\ executed = <<0, 1>>
    /\ subsys_[0] = idx_max

(***************************************************************************)
(* C18  Dereferencing fails at end.                                        *)
(***************************************************************************)
\* C18 as stated: dereferencing a null iterator, or an iterator that compares
\* equal to end(), fails with InvalidIterator, also on a circuit without
\* steps; execute(it) with such an iterator fails alike and runs no step.
C18_Original ==
    [][pc = "run" /\ op'.f \in {"operator*", "execute"}
          /\ (it.qc_ = "nullptr" \/ iterator_eq(it, end))
          => /\ op'.err = "InvalidIterator"
             /\ UNCHANGED engine
             /\ executed' = executed]_vars

(***************************************************************************)
(* C19  Iterator advance.                                                  *)
(***************************************************************************)
\* C19: on a circuit with N >= 1 steps that no call modifies any more, for
\* every k in 0..N the k increments of begin() succeed and give an iterator
\* with ip = k, the gate sub-cursor at the number of GATE tags and the
\* measurement sub-cursor at the number of MEASUREMENT tags among the first k
\* entries of step_types, and the type of entry k, NONE when k = N; after N
\* increments it compares equal to end().  The iterator of a run is always
\* one of these.
C19_IteratorAdvance ==
    [](pc = "run" /\ get_step_count >= 1
          => /\ \A k \in 0..get_step_count :
                   /\ advance(k).err = "ok"
                   /\ advance(k).it.elem_.ip_ = k
                   /\ advance(k).it.elem_.gates_ip_ = Rank("GATE", k)
                   /\ advance(k).it.elem_.measurements_ip_ = Rank("MEASUREMENT", k)
                   /\ advance(k).it.elem_.type_ =
                          IF k < get_step_count THEN step_types_[k + 1] ELSE "NONE"
             /\ iterator_eq(advance(get_step_count).it, end)
             /\ it.qc_ = "this"
                   => /\ it.elem_.ip_ \in 0..get_step_count
                      /\ it = advance(it.elem_.ip_).it)

\* the iterator of a circuit with a measurement and then a gate was
\* incremented twice from begin() and compares equal to end()
C19_Witness ==
    /\ pc = "run"
    /\ step_types_ = <<"MEASUREMENT", "GATE">>
    /\ op = [f |-> "operator++", err |-> "ok"]
    /\ it.elem_.ip_ = 2
    /\ it.elem_.gates_ip_ = 1 /\ it.elem_.measurements_ip_ = 1
    /\ iterator_eq(it, end)

(***************************************************************************)
(* C20  Relative-index remap.                                              *)
(***************************************************************************)
\* the engine executed a prefix of the steps, in timeline order, each once
InOrder == executed = [k \in 1..Len(executed) |-> k - 1]

\* every entry of subsys that is not the sentinel is the number of such
\* entries before it
Remapped(subsys) ==
    LET live == {o \in DOMAIN subsys : subsys[o] # idx_max}
    IN  \A o \in live : subsys[o] = Cardinality({p \in live : p < o})

\* the target lists without duplicates on MaxMany qudits
ManyTargets ==
    {t \in UNION {[1..n -> 0..(MaxMany - 1)] : n \in 1..MaxMany} : Distinct(t)}

\* C20: after a fresh engine executed a prefix of the steps in timeline
\* order, subsys[o] of every qudit o that is not measured is the number of
\* not measured qudits with a smaller index, also after a MEASURE_V_MANY
\* step; marking any list of distinct qudits in sequence on the subsys of
\* an engine just constructed on MaxMany qudits keeps it so.
C20_RelativeIndex ==
    /\ pc = "run" /\ InOrder => Remapped(subsys_)
    /\ op.f = "QEngine"
          => \A t \in ManyTargets :
                LET r == set_measured_each([o \in 0..(MaxMany - 1) |-> o], t, 1)
                IN  /\ r.err = "ok"
                    /\ Remapped(r.subsys)
                    /\ \A o \in 0..(MaxMany - 1) :
                          r.subsys[o] = idx_max <=> o \in Range(t)

\* a gate and a MEASURE_V_MANY step on qudit 0 of two were executed in order:
\* qudit 1 is at position 0
C20_Witness ==
    /\ nq_ = 2
    /\ executed = <<0, 1>>
    /\ step_types_ = <<"GATE", "MEASUREMENT">>
    /\ measurements_[1].measurement_type_ = "MEASURE_V_MANY"
    /\ measurements_[1].target_ = <<0>>
    /\ op = [f |-> "execute", err |-> "ok"]
    /\ subsys_[0] = idx_max /\ subsys_[1] = 0

(***************************************************************************)
(* C21  Engine shape.                                                      *)
(***************************************************************************)
\* the qudits targeted by the measurement steps among the steps executed
ExecutedTargets ==
    UNION {IF step_types_[ip + 1] = "MEASUREMENT"
           THEN Range(StepAt(ip + 1).target_) ELSE {} :
               ip \in Range(executed)}

\* C21: after a fresh engine executed a prefix of the steps in timeline
\* order, subsys has nq entries, and the number of its entries that are not
\* the sentinel is nq minus the number of qudits targeted by the measurement
\* steps executed, which is the number of qudits of psi (the measurement
\* primitives remove their targets from the ket).
C21_EngineShape ==
    pc = "run" /\ InOrder
       => /\ DOMAIN subsys_ = 0..(nq_ - 1)
          /\ Cardinality({o \in DOMAIN subsys_ : subsys_[o] # idx_max})
                = nq_ - Cardinality(ExecutedTargets)
          /\ psi_.n = nq_ - Cardinality(ExecutedTargets)

\* a measurement of one qudit of two and a gate were executed in order: one
\* entry of subsys is the sentinel, psi holds one qudit
C21_Witness ==
    /\ nq_ = 2
    /\ executed = <<0, 1>>
    /\ step_types_ = <<"MEASUREMENT", "GATE">>
    /\ Cardinality(ExecutedTargets) = 1
    /\ psi_.n = 1
    /\ op = [f |-> "execute", err |-> "ok"]

(***************************************************************************)
(* C22  reset() restores the construction state.                           *)
(***************************************************************************)
\* C22: whatever execute, set_dit and get_dit calls came before, reset()
\* leaves psi the zero state of nq qudits, dits and probs nc zeros, subsys
\* the identity on 0..nq-1 (the state the constructor makes) and the circuit
\* as it was; a reset() that follows a reset() changes nothing.
C22_Reset ==
    [][op'.f = "reset"
          => /\ psi_' = zero(nq_, d_)
             /\ dits_' = [i \in 0..(nc_ - 1) |-> 0]
             /\ probs_' = [i \in 0..(nc_ - 1) |-> "0"]
             /\ subsys_' = [i \in 0..(nq_ - 1) |-> i]
             /\ Engine' = QEngine
             /\ circuit' = circuit
             /\ (op.f = "reset" => engine' = engine)]_vars

\* reset() has run on an engine of a circuit with a dit and a measurement
\* step
C22_Witness ==
    /\ op = [f |-> "reset", err |-> "ok"]
    /\ nc_ = 1
    /\ get_measurement_count >= 1
    /\ Engine = QEngine

(***************************************************************************)
(* C23  Classical-control semantics.                                       *)
(***************************************************************************)
\* the step executed by the last call of execute(elem), elem of this circuit
Executing(kind, types) ==
    /\ op'.f = "execute"
    /\ op'.err = "ok"
    /\ arg'.qc = "this"
    /\ arg'.i \in 0..(get_step_count - 1)
    /\ step_types_[arg'.i + 1] = kind
    /\ IF kind = "GATE" THEN StepAt(arg'.i + 1).gate_type_ \in types
       ELSE StepAt(arg'.i + 1).measurement_type_ \in types

\* C23 as stated: with a non-empty dit register, executing a cCTRL /
\* cCTRL_custom step reads first = dits[ctrl[0]]; when every dits[ctrl[k]]
\* equals first, U to the power first is applied to the targets, otherwise
\* psi stays; dits, probs and subsys stay in every case.
C23_Original ==
    [][Executing("GATE", ClassicalCtrlTypes) /\ DOMAIN dits_ # {}
          => /\ Len(StepAt(arg'.i + 1).ctrl_) >= 1
             /\ LET g == StepAt(arg'.i + 1)
                    first == dits_[g.ctrl_[1]]
                IN  psi_' =
                       IF \A k \in 1..Len(g.ctrl_) : dits_[g.ctrl_[k]] = first
                       THEN apply(psi_, powm(h_tbl(g.gate_hash_), first),
                                  get_relative_pos_(subsys_, g.target_).v, d_)
                       ELSE psi_
             /\ UNCHANGED <<dits_, probs_, subsys_>>]_vars

(***************************************************************************)
(* C24  Measurement effect and frame.                                      *)
(***************************************************************************)
\* the qudits a subsys marks measured
MarkedIn(subsys) == {i \in DOMAIN subsys : subsys[i] = idx_max}

\* the call of execute(elem) of this step is on a measurement step of this
\* circuit none of whose targets is measured yet
ExecutingMeasurement ==
    /\ op'.f = "execute"
    /\ arg'.qc = "this"
    /\ arg'.i \in 0..(get_step_count - 1)
    /\ step_types_[arg'.i + 1] = "MEASUREMENT"
    /\ Range(StepAt(arg'.i + 1).target_) \cap MarkedIn(subsys_) = {}

\* C24 as stated: executing a MEASURE_Z, MEASURE_V or MEASURE_V_MANY step with
\* register c_reg writes the outcome sampled to dits[c_reg] and its
\* probability to probs[c_reg], leaves the other entries of dits and probs,
\* and marks exactly target[0] (MEASURE_V_MANY: every target) measured.
C24_Original ==
    [][ExecutingMeasurement
          => LET ms == StepAt(arg'.i + 1)
             IN  /\ op'.err = "ok"
                 /\ Last(psi_'.ops).f \in {"measure_seq", "measure"}
                 /\ dits_' = [dits_ EXCEPT ![ms.c_reg_] = Last(psi_'.ops).res]
                 /\ probs_' = [probs_ EXCEPT ![ms.c_reg_] = "p"]
                 /\ MarkedIn(subsys_') =
                       MarkedIn(subsys_) \cup
                          (IF ms.measurement_type_ = "MEASURE_V_MANY"
                           THEN Range(ms.target_) ELSE {ms.target_[1]})]_vars

(***************************************************************************)
(* C25  Dit range.                                                         *)
(***************************************************************************)
\* C25 as stated: after any sequence of set_dit, execute and reset calls on
\* an engine, every dits[i], 0 <= i < nc, lies in [0, d).
C25_Original ==
    pc = "run" => \A i \in DOMAIN dits_ : dits_[i] \in 0..(d_ - 1)

(***************************************************************************)
(* C26  Dit register bounds.                                               *)
(***************************************************************************)
\* C26 as stated: dits and probs have length nc in every engine state, and
\* set_dit(i, v) and get_dit(i) with i >= nc, i = nc included, fail with
\* OutOfRange and leave the engine as it was.
C26_Original ==
    [][pc' = "run"
          => /\ DOMAIN dits_' = 0..(nc_ - 1)
             /\ DOMAIN probs_' = 0..(nc_ - 1)
             /\ (op'.f \in {"get_dit", "set_dit"} /\ arg'.i >= nc_
                    => op'.err = "OutOfRange" /\ UNCHANGED engine)]_vars

(***************************************************************************)
(* C27  Cross-circuit use is rejected.                                     *)
(***************************************************************************)
\* C27: execute called with the step descriptor of an iterator over another
\* circuit fails with InvalidIterator and leaves psi, dits, probs and subsys
\* as they were.
C27_CrossCircuit ==
    [][op'.f = "execute" /\ arg'.qc = "other"
          => op'.err = "InvalidIterator" /\ UNCHANGED engine]_vars

\* a gate step of another circuit was refused by an engine that has executed
\* a step of its own circuit, which starts with a gate step too
C27_Witness ==
    /\ op = [f |-> "execute", err |-> "InvalidIterator"]
    /\ arg.qc = "other"
    /\ executed = <<0>>
    /\ step_types_[1] = "GATE"
    /\ Len(psi_.ops) = 1

(***************************************************************************)
(* C30  The engine never mutates its bound circuit.                        *)
(***************************************************************************)
\* C30: execute (the lookups in the matrix table included, also of a digest
\* that is no key of the table), reset and set_dit leave the steps, the step
\* types, the measured flags, the counters and the matrix table of the
\* circuit as they were.
C30_CircuitImmutable ==
    [][op'.f \in {"execute", "reset", "set_dit"} => circuit' = circuit]_vars

\* execute looked up the digest of a MEASURE_V step that is no key of the
\* table of the circuit
C30_Witness ==
    /\ op.f = "execute"
    /\ arg.qc = "this"
    /\ arg.i \in 0..(get_step_count - 1)
    /\ step_types_[arg.i + 1] = "MEASUREMENT"
    /\ StepAt(arg.i + 1).measurement_type_ = "MEASURE_V"
    /\ StepAt(arg.i + 1).mats_hash_[1] \notin DOMAIN cmat_hash_tbl_
    /\ op.err = "ZeroSize"

(***************************************************************************)
(* C28  Noise record shape.                                                *)
(***************************************************************************)
\* the qudits targeted by the measurement steps before position ip
MeasuredBefore(ip) ==
    UNION {IF step_types_[j + 1] = "MEASUREMENT"
           THEN Range(StepAt(j + 1).target_) ELSE {} : j \in 0..(ip - 1)}

\* the noise applications that noise_results_[ip] records: its j-th entry is
\* the Kraus operator on the j-th qudit that is not measured, in ascending
\* order, which is the qudit at position j - 1 of the ket
Recorded(ip) ==
    [j \in 1..Len(noise_results_[ip]) |->
        Applied("noise", NoMat, <<>>, <<j - 1>>, noise_results_[ip][j])]

RECURSIVE RecordedUpTo(_)
RecordedUpTo(n) ==
    IF n = 0 THEN <<>> ELSE RecordedUpTo(n - 1) \o Recorded(n - 1)

IsNoise(o) == o.f = "noise"

\* C28: after a noisy engine on a circuit of N steps executed every step
\* once in timeline order, noise_results has N entries, entry ip has as many
\* elements as qudits were not measured before step ip, and its elements
\* are the Kraus operators of the noise on these qudits in ascending order.
C28_NoiseRecord ==
    pc = "run" /\ InOrder /\ Len(executed) = get_step_count
       => /\ DOMAIN noise_results_ = 0..(get_step_count - 1)
          /\ \A ip \in DOMAIN noise_results_ :
                Len(noise_results_[ip])
                   = nq_ - Cardinality(MeasuredBefore(ip))
          /\ SelectSeq(psi_.ops, IsNoise) = RecordedUpTo(get_step_count)

\* a measurement of one qudit of two, then a gate: two Kraus operators
\* recorded before the first step, one before the second
C28_Witness ==
    /\ pc = "run"
    /\ nq_ = 2
    /\ executed = <<0, 1>>
    /\ step_types_ = <<"MEASUREMENT", "GATE">>
    /\ noise_results_[0] = <<0, 1>>
    /\ noise_results_[1] = <<1>>

(***************************************************************************)
(* C29  Noise ordering.                                                    *)
(***************************************************************************)
\* the operations the step of the behaviour appends to the ket
AppendedOps == SubSeq(psi_'.ops, Len(psi_.ops) + 1, Len(psi_'.ops))

\* C29 as stated: one call of QNoisyEngine::execute applies the noise once
\* to every qudit that is not measured before the step, in ascending order,
\* records the Kraus operator of each application in noise_results[ip], and
\* only then lets the step act; a measured qudit receives no noise.
C29_Original ==
    [][op'.f = "execute"
          => LET nm == engine_get_non_measured
             IN  /\ op'.err # "SIGSEGV"
                 /\ Len(AppendedOps) >= Len(nm)
                 /\ \A j \in 1..Len(AppendedOps) :
                       IsNoise(AppendedOps[j]) <=> j <= Len(nm)
                 /\ \A j \in 1..Len(nm) :
                       AppendedOps[j].target = <<subsys_[nm[j]]>>
                 /\ arg'.i \in DOMAIN noise_results_
                 /\ noise_results_' =
                       [noise_results_ EXCEPT ![arg'.i] =
                           @ \o [j \in 1..Len(nm) |-> AppendedOps[j].res]]]_vars

(***************************************************************************)
(* C31  Bell scenario.                                                     *)
(***************************************************************************)
\* the circuit gate(H, 0); CTRL(X, 0, 1); measureZ(0, 0); measureZ(1, 1) on
\* two qubits and two dits
BellCircuit ==
    /\ nq_ = 2 /\ nc_ = 2 /\ d_ = 2
    /\ step_types_ = <<"GATE", "GATE", "MEASUREMENT", "MEASUREMENT">>
    /\ gates_[1].gate_type_ = "SINGLE"
    /\ gates_[1].gate_hash_ = hash_eigen(Hadamard)
    /\ gates_[1].target_ = <<0>>
    /\ gates_[2].gate_type_ = "SINGLE_CTRL_SINGLE_TARGET"
    /\ gates_[2].gate_hash_ = hash_eigen(PauliX)
    /\ gates_[2].ctrl_ = <<0>>
    /\ gates_[2].target_ = <<1>>
    /\ measurements_[1].measurement_type_ = "MEASURE_Z"
    /\ measurements_[1].target_ = <<0>>
    /\ measurements_[1].c_reg_ = 0
    /\ measurements_[2].measurement_type_ = "MEASURE_Z"
    /\ measurements_[2].target_ = <<1>>
    /\ measurements_[2].c_reg_ = 1

\* C31: on the Bell circuit executed in timeline order by a fresh engine,
\* both outcomes of the first measurement have probability 1/2; in every
\* final state dits[0] and dits[1] are the two outcomes sampled and are
\* equal, probs[0] and probs[1] are the probabilities measure_seq returned,
\* 1/2 for the first outcome and 1 for the second given the first, and both
\* qubits are measured.
C31_Bell ==
    /\ BellCircuit /\ pc = "run" /\ executed = <<0, 1>>
          => \A m \in 0..1 :
                LET a == Amp(nq_, psi_.ops, Len(psi_.ops))
                IN  Weight(a.k, a.n, subsys_[0], m) * 2 = SumSq(a.k, Basis(a.n))
    /\ BellCircuit /\ pc = "run" /\ executed = <<0, 1, 2, 3>>
          => /\ Len(psi_.ops) = 4
             /\ dits_ = (0 :> psi_.ops[3].res) @@ (1 :> psi_.ops[4].res)
             /\ dits_[1] = dits_[0]
             /\ probs_ = (0 :> "p") @@ (1 :> "p")
             /\ ProbIs(nq_, psi_.ops, 3, 1, 2)
             /\ ProbIs(nq_, psi_.ops, 4, 1, 1)
             /\ \A i \in 0..1 : engine_get_measured(subsys_, i)

\* the Bell circuit was executed and both outcomes sampled are 1
C31_Witness ==
    /\ BellCircuit
    /\ pc = "run"
    /\ executed = <<0, 1, 2, 3>>
    /\ dits_ = (0 :> 1) @@ (1 :> 1)

(***************************************************************************)
(* C32  The sentinel stays exact.                                          *)
(***************************************************************************)
\* C32: the entry of subsys of a qudit that a measurement step marks is
\* exactly idx_max; every entry is idx_max or a position 0..nq-1, never
\* idx_max - 1; and an entry that is idx_max stays idx_max through every
\* call but reset().
C32_SentinelExact ==
    [][pc' = "run"
          => /\ \A i \in DOMAIN subsys_' :
                   subsys_'[i] \in 0..(nq_ - 1) \cup {idx_max}
             /\ (pc = "run" /\ op'.f # "reset"
                    => \A i \in DOMAIN subsys_ :
                          subsys_[i] = idx_max => subsys_'[i] = idx_max)
             /\ (Executing("MEASUREMENT",
                           {"MEASURE_Z", "MEASURE_V", "MEASURE_V_MANY"})
                    => subsys_'[StepAt(arg'.i + 1).target_[1]] = idx_max)]_vars

\* qudit 1 was measured, then qudit 0: the loop of the second call, from
\* m = 0, passed the entry of qudit 1
C32_Witness ==
    /\ pc = "run"
    /\ nq_ = 2
    /\ executed = <<0, 1>>
    /\ step_types_ = <<"MEASUREMENT", "MEASUREMENT">>
    /\ measurements_[1].target_ = <<1>>
    /\ measurements_[2].target_ = <<0>>
    /\ subsys_ = (0 :> idx_max) @@ (1 :> idx_max)

(***************************************************************************)
(* C33  A failing builder call is atomic.                                  *)
(***************************************************************************)
\* C33: a builder call that throws, whatever the exception, leaves gates,
\* measurements, step_types, the measured flags, the gate and measurement
\* counters and the matrix table as they were before the call.
C33_BuilderAtomic ==
    [][pc' = "build" /\ err' # "ok"
          => /\ StepsUnchanged
             /\ CountersUnchanged
             /\ measured_' = measured_
             /\ cmat_hash_tbl_' = cmat_hash_tbl_]_vars

\* a gate call failed on a hash collision after one step was built:
\* add_hash_ threw after all the checks of the call had passed
C33_Witness ==
    /\ pc = "build"
    /\ err = "MatrixHashCollision"
    /\ get_step_count = 1
    /\ cmat_hash_tbl_ # <<>>

(***************************************************************************)
(* C34: executing the steps of a circuit one after the other in timeline   *)
(* order, on a fresh or reset QEngine or QNoisyEngine, never raises        *)
(* QuditAlreadyMeasured and never raises InvalidIterator.                  *)
(***************************************************************************)
\* the call that just returned was execute on the step after the steps
\* executed so far, themselves executed in timeline order
NextInOrder ==
    /\ op'.f = "execute"
    /\ InOrder
    /\ arg'.i = Len(executed)
    /\ arg'.i < get_step_count

C34_InOrderNeverMeasured ==
    [][NextInOrder
          => op'.err \notin {"QuditAlreadyMeasured", "InvalidIterator"}]_vars

\* a noisy engine, reset after a run, has executed in order a measurement
\* and then a step on the other qudit
C34_Witness ==
    /\ pc = "run"
    /\ Noisy
    /\ op = [f |-> "execute", err |-> "ok"]
    /\ executed = <<0, 1>>
    /\ step_types_[1] = "MEASUREMENT"
    /\ Len(noise_results_[0]) > nq_
    /\ Len(engine_get_measured_all) > 0

(***************************************************************************)
(* C35  Engine and builder agree on what is measured.                      *)
(***************************************************************************)
\* the qudits targeted by the measurement steps among the first k steps
TargetsUpTo(k) ==
    UNION {IF step_types_[j] = "MEASUREMENT"
           THEN Range(StepAt(j).target_) ELSE {} : j \in 1..k}

\* C35 as stated: after a fresh engine executed the first k steps of a
\* circuit in timeline order, engine.get_measured() is the union of the target
\* lists of the measurement steps among them; after all steps it is
\* circuit.get_measured(), and engine.get_non_measured() is
\* circuit.get_non_measured().
C35_Original ==
    [][NextInOrder
          => (/\ Range(engine_measured_from(subsys_', 0, TRUE))
                    = TargetsUpTo(arg'.i + 1)
              /\ arg'.i + 1 = get_step_count
                    => /\ Range(engine_measured_from(subsys_', 0, TRUE))
                             = get_measured_all
                       /\ engine_measured_from(subsys_', 0, FALSE)
                             = get_non_measured)]_vars

(***************************************************************************)
(* C36  A failing execute is atomic.                                       *)
(***************************************************************************)
\* C36 as stated: when execute fails with InvalidIterator (a foreign step) or
\* QuditAlreadyMeasured (the step references a qudit the engine has measured),
\* psi, dits, probs and subsys of the engine, and noise_results of a
\* QNoisyEngine, are as before the call.
C36_Original ==
    [][op'.f = "execute"
          /\ op'.err \in {"InvalidIterator", "QuditAlreadyMeasured"}
          => /\ psi_' = psi_
             /\ dits_' = dits_
             /\ probs_' = probs_
             /\ subsys_' = subsys_
             /\ noise_results_' = noise_results_]_vars

(***************************************************************************)
(* C37  Gate steps are classical-state neutral.                            *)
(***************************************************************************)
\* C37: executing a GATE step (plain, FAN, quantum-controlled or classically
\* controlled) leaves dits, probs and subsys as they were, and with them the
\* number of qudits psi holds; only the content of psi can change.
C37_GateNeutral ==
    [][op'.f = "execute" /\ it.qc_ = "this" /\ it.elem_.type_ = "GATE"
          => /\ dits_' = dits_
             /\ probs_' = probs_
             /\ subsys_' = subsys_
             /\ psi_'.n = psi_.n]_vars

\* after a measurement, a classically controlled gate was executed and
\* changed psi
C37_Witness ==
    /\ op = [f |-> "execute", err |-> "ok"]
    /\ executed = <<0, 1>>
    /\ step_types_ = <<"MEASUREMENT", "GATE">>
    /\ it.elem_.ip_ = 1
    /\ gates_[1].gate_type_ \in ClassicalCtrlTypes
    /\ Len(psi_.ops) = 2
    /\ \E i \in DOMAIN subsys_ : subsys_[i] = idx_max

(***************************************************************************)
(* C38  Iterator increment is guarded.                                     *)
(***************************************************************************)
\* ++it is called on a null iterator, on an iterator of a circuit without
\* steps, or on an iterator whose ip is step_count
GuardedIncrement ==
    /\ op'.f = "operator++"
    /\ \/ it.qc_ = "nullptr"
       \/ get_step_count = 0
       \/ it.elem_.ip_ = get_step_count

\* C38 as stated: incrementing a null iterator, an iterator of a circuit with
\* zero steps, or an iterator whose ip is step_count fails with
\* InvalidIterator and leaves type, ip and the two sub-cursors of the iterator
\* as they were; the ip of an iterator over a circuit never exceeds
\* step_count.
C38_Original ==
    [][pc' = "run"
          => (/\ GuardedIncrement => (op'.err = "InvalidIterator" /\ it' = it)
              /\ it'.qc_ = "this"
                    => ~idx_greater(it'.elem_.ip_, get_step_count))]_vars

(***************************************************************************)
(* C39  Noise records do not accumulate across runs.                       *)
(***************************************************************************)
\* a QNoisyEngine has executed every step of its circuit in timeline order
\* since it was constructed or last reset
FullNoisyRun ==
    /\ pc = "run"
    /\ Noisy
    /\ InOrder
    /\ Len(executed) = get_step_count

\* C39 as stated: when a QNoisyEngine has completed a full in-order
\* execution, the first one or one that follows an earlier full execution and
\* reset(), noise_results has length step_count and noise_results[ip] has as
\* many entries as there were non-measured qudits before step ip.
C39_Original ==
    FullNoisyRun
       => /\ DOMAIN noise_results_ = 0..(get_step_count - 1)
          /\ \A ip \in DOMAIN noise_results_ :
                Len(noise_results_[ip])
                   = nq_ - Cardinality(TargetsUpTo(ip))

=============================================================================
